---- MODULE Spec2Model ----
(***************************************************************************)
(* Verification model of the Mandelbrot explorer: the FractalState store,   *)
(* the WebGLRenderer uniform upload and the fragment shader's per-pixel      *)
(* escape-time loop with its double-double arithmetic kernel, the            *)
(* ShaderManager, the escape-time functions of ComplexMath, the shader's    *)
(* getColor, the AnimationController with its interval timers and the        *)
(* renderer's requestAnimationFrame loop.                                    *)
(*                                                                           *)
(* Number model.  Every real quantity of the pixel plane is an integer      *)
(* count of units of 2^-FracBits.  A GPU float is such an integer with at    *)
(* most Prec significant bits, a host double one with at most HostPrec       *)
(* bits; every operation rounds to nearest, ties to even, as IEEE-754 does.  *)
(* The formats are scaled down (24 -> Prec, 53 -> HostPrec bits) and the     *)
(* Dekker split constant is scaled with them (2^12+1 -> 2^ceil(Prec/2)+1).   *)
(* Results beyond 2^RangeBits saturate; the shader compares such values      *)
(* only with the bailout radius, which lies below the saturation.            *)
(* The zoom factor is kept on a logarithmic grid: the integer                *)
(* 1000*log10(zoom).  The power exponent is kept in thousandths.  maxIter,   *)
(* numberBase and colorScheme are kept in halves, so that Math.floor and     *)
(* int() act on them; iteration counts are in halves as well.                *)
(***************************************************************************)
EXTENDS Integers, Sequences, FiniteSets, TLC

\* the operands, the operation and the result of the arithmetic harness
VARIABLES opA, opB, opName, opRes

\* the FractalState object (_state, _history, _historyIndex), the operation
\* last applied to it and the number of operations applied
VARIABLES state, history, historyIndex, lastOp, nOps

\* what the last operation did: the options it was called with, what it
\* returned, and whether it called _notifyListeners
VARIABLES opts, ret, notified

\* the record an observer of the store keeps: the states that held before
\* each update made with addToHistory that has not been undone since, oldest
\* first, and the number of snapshots _pushHistory has shifted out
VARIABLES pending, dropped

\* the store's _listeners in insertion order, the listeners the last operation
\* invoked, in order, and the observer's record of the subscriptions: the
\* listeners an unsubscribe function was handed out for (issued) and those
\* whose last subscribe was not followed by a call of it (active)
VARIABLES listeners, invoked, subs

\* the key list the last operation handed to the listeners through
\* _notifyListeners, as a set; empty when it did not notify
VARIABLES changedKeys

\* the renderer: the uniforms of the program, the state and the split centre
\* of the frame being drawn, and the shader invocation of one pixel (its
\* position pc, its locals px and the branch frag that colours it)
VARIABLES uniforms, snap, split, pc, px, frag

\* the ShaderManager (_programs, _shaders), the objects of the GL context that
\* are alive, the next object handle, and the last call made on the manager
VARIABLES programs, shaders, glLive, glNext, call

\* the arguments of a call of the escape-time functions of ComplexMath and
\* what the call returned
VARIABLES iterIn, iterOut

\* the arguments of a call of the shader's getColor with the value of the
\* uniform u_zoom during the call, and the colour the call returned
VARIABLES colorIn, colorOut

\* the AnimationController (_animations, _listeners), the interval timers of
\* the environment that are live, the next timer handle, the last call made
\* on the controller and the number of timer callbacks that have run
VARIABLES animations, timers, timerNext, animListeners, animCall, nTicks

\* the render loop of the WebGLRenderer: _animationFrameId (0 is null), the
\* requestAnimationFrame callbacks that are pending, the next request handle,
\* the renderFrame callback that is executing and its position, the
\* renderer's _isInitialized, _program and _vertexBuffer, the last call made
\* on the renderer, and the number of frames rendered by the loop
VARIABLES animationFrameId, rafPending, rafNext, frame, renderer, loopCall,
          nFrames

\* the InteractionManager (_options, its interaction and touch state im, the
\* keys of _boundHandlers), the event types of the canvas that have a listener
\* of the manager attached, the last event or call with the call the handler
\* made on the store, the position of the last press of the mouse button
\* (<<>> before the first), whether dispose() has been called, and the number
\* of events and calls so far
VARIABLES imOptions, im, boundHandlers, canvasListeners, uiCall, press,
          disposed, nEvents

\* the AnimationController of the double-double version: its _speed and the
\* zoom animation it runs (the handle of its interval timer, 0 when it is not
\* running, and the closure variables targetIndex and direction), and the
\* last call or callback that acted on that controller
VARIABLES speed, zoomAnim, zoomCall

arithVars == <<opA, opB, opName, opRes>>

stateVars ==
  <<state, history, historyIndex, lastOp, nOps, opts, ret, notified, pending,
    dropped, listeners, invoked, subs, changedKeys>>

renderVars == <<uniforms, snap, split, pc, px, frag>>

shaderVars == <<programs, shaders, glLive, glNext, call>>

iterVars == <<iterIn, iterOut>>

colorVars == <<colorIn, colorOut>>

animVars == <<animations, timers, timerNext, animListeners, animCall, nTicks>>

loopVars ==
  <<animationFrameId, rafPending, rafNext, frame, renderer, loopCall, nFrames>>

uiVars ==
  <<imOptions, im, boundHandlers, canvasListeners, uiCall, press, disposed,
    nEvents>>

zoomVars == <<speed, zoomAnim, zoomCall>>

vars ==
  <<arithVars, stateVars, renderVars, shaderVars, iterVars, colorVars, animVars,
    loopVars, uiVars, zoomVars>>

\* ------------------------------------------------------------------------
\* Bounds of the model
\* ------------------------------------------------------------------------
Prec == 5
HostExtra == 7
FracBits == 8
MaxOps == 2
MaxHistory == 2
MaxUpdates == 1
RangeBits == 10
MaxOperand == 64

HostPrec == Prec + HostExtra

\* ------------------------------------------------------------------------
\* Integer helpers
\* ------------------------------------------------------------------------
Abs(x) == IF x < 0 THEN -x ELSE x

Min2(a, b) == IF a <= b THEN a ELSE b

Max2(a, b) == IF a >= b THEN a ELSE b

RECURSIVE Pow2(_)
Pow2(n) == IF n <= 0 THEN 1 ELSE 2 * Pow2(n - 1)

Unit == Pow2(FracBits)

\* smallest power of two that is not a Prec-bit (HostPrec-bit) mantissa
GpuLim == Pow2(Prec)

HostLim == Pow2(HostPrec)

\* spacing of the numbers with mantissas below lim at the magnitude x >= 0
RECURSIVE UlpRec(_, _)
UlpRec(x, lim) == IF x < lim THEN 1 ELSE 2 * UlpRec(x \div 2, lim)

UlpAt(lim, x) == UlpRec(Abs(x), lim)

\* nearest integer to n/d (d > 0), ties to the even integer
RoundDiv(n, d) ==
  LET q == n \div d
      r == n % d
  IN  IF 2 * r < d THEN q
      ELSE IF 2 * r > d THEN q + 1
      ELSE IF q % 2 = 0 THEN q ELSE q + 1

\* the rational n/d rounded to a mantissa below lim on the unit grid
RoundQ(lim, n, d) ==
  LET u == UlpRec(Abs(n) \div d, lim)
  IN  RoundDiv(n, d * u) * u

RoundTo(lim, n) ==
  LET u == UlpRec(Abs(n), lim)
  IN  IF u = 1 THEN n ELSE RoundDiv(n, u) * u

\* ------------------------------------------------------------------------
\* GPU float arithmetic (GLSL highp float) and host double arithmetic
\* ------------------------------------------------------------------------
\* the largest magnitude a float of the model holds; larger results saturate
FloatMax == Pow2(RangeBits) * Unit

Clamp(x) == Max2(-FloatMax, Min2(FloatMax, x))

Float32(n) == Clamp(RoundTo(GpuLim, n))

FAdd(a, b) == Float32(a + b)

FSub(a, b) == Float32(a - b)

\* ulp(a) * ulp(b) / Unit for ulps sa and sb, where that is a whole number
UlpProduct(sa, sb) ==
  IF sa >= Unit THEN (sa \div Unit) * sb
  ELSE IF sb >= Unit THEN sa * (sb \div Unit)
  ELSE (sa * sb) \div Unit

\* the product of the floats a and b, whose ulps are sa and sb: each is a
\* mantissa of at most Prec bits times its ulp, so the product is the product
\* of the mantissas scaled by ulp(a) * ulp(b) / Unit
FMulUlps(a, b, sa, sb) ==
  IF a = 0 \/ b = 0 THEN 0
  ELSE IF UlpProduct(sa, sb) >= FloatMax
  THEN (IF (a < 0) # (b < 0) THEN -FloatMax ELSE FloatMax)
  ELSE IF UlpProduct(sa, sb) >= 1
  THEN Float32((a \div sa) * (b \div sb) * UlpProduct(sa, sb))
  ELSE Clamp(RoundQ(GpuLim, (a \div sa) * (b \div sb), Unit \div (sa * sb)))

\* a * b / Unit rounded to Prec bits
FMul(a, b) == FMulUlps(a, b, UlpAt(GpuLim, a), UlpAt(GpuLim, b))

HAdd(a, b) == RoundTo(HostLim, a + b)

HSub(a, b) == RoundTo(HostLim, a - b)

\* the product of the doubles a and b, whose ulps are sa and sb
HMulUlps(a, b, sa, sb) ==
  IF a = 0 \/ b = 0 THEN 0
  ELSE IF UlpProduct(sa, sb) >= FloatMax
  THEN (IF (a < 0) # (b < 0) THEN -FloatMax ELSE FloatMax)
  ELSE IF UlpProduct(sa, sb) >= 1
  THEN Clamp(RoundTo(HostLim, (a \div sa) * (b \div sb) * UlpProduct(sa, sb)))
  ELSE Clamp(RoundQ(HostLim, (a \div sa) * (b \div sb), Unit \div (sa * sb)))

\* a * b / Unit rounded to HostPrec bits
HMul(a, b) == HMulUlps(a, b, UlpAt(HostLim, a), UlpAt(HostLim, b))

IsFloat(n) == Float32(n) = n

IsDouble(n) == RoundTo(HostLim, n) = n

\* ------------------------------------------------------------------------
\* Double-double kernel of the fragment shader
\* ------------------------------------------------------------------------
SplitConst == (Pow2((Prec + 1) \div 2) + 1) * Unit

\* the element of a singleton: The({e}) is e, evaluated once
The(S) == CHOOSE x \in S : TRUE

\* Fast2Sum used without ordering the operands by magnitude
twoSumFast(a, b) ==
  The({ <<s, FSub(b, FSub(s, a))>> : s \in {FAdd(a, b)} })

twoSum(a, b) ==
  The({ The({ <<s, FAdd(FSub(a, FSub(s, v)), FSub(b, v))>> : v \in {FSub(s, a)} }) :
          s \in {FAdd(a, b)} })

\* <<hi, lo>> of Dekker's splitting of a, t being a * SplitConst
splitParts(a, t) ==
  The({ <<hi, FSub(a, hi)>> : hi \in {FSub(t, FSub(t, a))} })

twoProd(a, b) ==
  The({ <<p, FAdd(FAdd(FAdd(FSub(FMul(sa[1], sb[1]), p), FMul(sa[1], sb[2])),
                       FMul(sa[2], sb[1])),
                  FMul(sa[2], sb[2]))>> :
          p \in {FMul(a, b)},
          sa \in {splitParts(a, FMul(a, SplitConst))},
          sb \in {splitParts(b, FMul(b, SplitConst))} })

ddAddNaive(a, b) == <<FAdd(a[1], b[1]), FAdd(a[2], b[2])>>

\* the last two statements of ddAdd, s and t being the two twoSum results
ddAddTail(s, t) ==
  The({ twoSum(s1[1], FAdd(s1[2], t[2])) : s1 \in {twoSum(s[1], FAdd(s[2], t[1]))} })

ddAdd(a, b) ==
  The({ ddAddTail(s, t) : s \in {twoSum(a[1], b[1])}, t \in {twoSum(a[2], b[2])} })

ddMulNoRenorm(a, b) ==
  The({ <<p[1], FAdd(p[2], FAdd(FMul(a[1], b[2]), FMul(a[2], b[1])))>> :
          p \in {twoProd(a[1], b[1])} })

ddMul(a, b) ==
  The({ twoSum(p[1], FAdd(p[2], FAdd(FMul(a[1], b[2]), FMul(a[2], b[1])))) :
          p \in {twoProd(a[1], b[1])} })

ddSub(a, b) == ddAdd(a, <<-b[1], -b[2]>>)

ddFromFloat(a) == <<a, 0>>

\* returns <<rx, ry>>, the two out parameters
ddComplexSquare(zx, zy) ==
  The({ <<ddSub(p.zx2, p.zy2), ddAdd(p.zxzy, p.zxzy)>> :
          p \in {[zx2 |-> ddMul(zx, zx), zy2 |-> ddMul(zy, zy),
                  zxzy |-> ddMul(zx, zy)]} })

ddComplexMul(zx, zy, wx, wy) ==
  The({ <<ddSub(p.zxwx, p.zywy), ddAdd(p.zxwy, p.zywx)>> :
          p \in {[zxwx |-> ddMul(zx, wx), zywy |-> ddMul(zy, wy),
                  zxwy |-> ddMul(zx, wy), zywx |-> ddMul(zy, wx)]} })

\* |lo| <= ulp(hi)/2
Normalized(d) == 2 * Abs(d[2]) <= UlpAt(GpuLim, d[1])

\* ------------------------------------------------------------------------
\* Arithmetic harness: the kernel applied to operands drawn from bounded sets
\* ------------------------------------------------------------------------
\* products of multiples of Quantum are whole units: no underflow below the
\* unit of the grid can occur in any partial product
Quantum == Pow2((FracBits + 1) \div 2)

NoUnderflow(d) == d[1] % Quantum = 0 /\ d[2] % Quantum = 0

\* the product of the operands, its double and its Dekker splitting stay
\* below the saturation of the float range
NoOverflow(a, b) ==
  /\ Abs(a[1]) * Abs(b[1]) < (FloatMax \div 4) * Unit
  /\ Abs(a[1]) * SplitConst < FloatMax * Unit
  /\ Abs(b[1]) * SplitConst < FloatMax * Unit

ScaleDD(d, k) == <<d[1] * k, d[2] * k>>

ScalarOperands == {<<n * Quantum, 0>> : n \in {m \in -MaxOperand..MaxOperand : IsFloat(m)}}

HiVals == {0} \cup {s * m * Pow2(e) : s \in {-1, 1}, m \in {16, 21, 31}, e \in {0, 3, 5}}

LoVals == {s * k : s \in {-1, 1}, k \in {0, 1, 4, 7, 13, 16}}

DDOperands ==
  {ScaleDD(d, Quantum) :
     d \in {e \in HiVals \X LoVals : IsFloat(e[1]) /\ IsFloat(e[2]) /\ Normalized(e)}}

OperandPairs == (ScalarOperands \X ScalarOperands) \cup (DDOperands \X DDOperands)

ArithInit ==
  /\ \E p \in OperandPairs : opA = p[1] /\ opB = p[2]
  /\ opName = "none"
  /\ opRes = <<<<0, 0>>, <<0, 0>>>>

Apply(name, rx, ry) ==
  /\ opName' = name
  /\ opRes' = <<rx, ry>>
  /\ UNCHANGED <<opA, opB>>

ApplyTwoSum ==
  /\ opName = "none"
  /\ Apply("twoSum", twoSum(opA[1], opB[1]), <<0, 0>>)
  /\ UNCHANGED <<zoomVars, uiVars, stateVars, renderVars, shaderVars, iterVars, colorVars,
                 animVars, loopVars>>

ApplyTwoProd ==
  /\ opName = "none"
  /\ NoUnderflow(opA) /\ NoUnderflow(opB)
  /\ NoOverflow(opA, opB)
  /\ Apply("twoProd", twoProd(opA[1], opB[1]), <<0, 0>>)
  /\ UNCHANGED <<zoomVars, uiVars, stateVars, renderVars, shaderVars, iterVars, colorVars,
                 animVars, loopVars>>

ApplyDdAdd ==
  /\ opName = "none"
  /\ Apply("ddAdd", ddAdd(opA, opB), <<0, 0>>)
  /\ UNCHANGED <<zoomVars, uiVars, stateVars, renderVars, shaderVars, iterVars, colorVars,
                 animVars, loopVars>>

ApplyDdSub ==
  /\ opName = "none"
  /\ Apply("ddSub", ddSub(opA, opB), <<0, 0>>)
  /\ UNCHANGED <<zoomVars, uiVars, stateVars, renderVars, shaderVars, iterVars, colorVars,
                 animVars, loopVars>>

ApplyDdMul ==
  /\ opName = "none"
  /\ NoUnderflow(opA) /\ NoUnderflow(opB)
  /\ NoOverflow(opA, opB)
  /\ Apply("ddMul", ddMul(opA, opB), <<0, 0>>)
  /\ UNCHANGED <<zoomVars, uiVars, stateVars, renderVars, shaderVars, iterVars, colorVars,
                 animVars, loopVars>>

ApplyDdComplexSquare ==
  /\ opName = "none"
  /\ NoUnderflow(opA) /\ NoUnderflow(opB)
  /\ NoOverflow(opA, opB)
  /\ LET r == ddComplexSquare(opA, opB)
     IN  Apply("ddComplexSquare", r[1], r[2])
  /\ UNCHANGED <<zoomVars, uiVars, stateVars, renderVars, shaderVars, iterVars, colorVars,
                 animVars, loopVars>>

ArithNext ==
  \/ ApplyTwoSum
  \/ ApplyTwoProd
  \/ ApplyDdAdd
  \/ ApplyDdSub
  \/ ApplyDdMul
  \/ ApplyDdComplexSquare



\* ------------------------------------------------------------------------
\* FractalState
\*   centerX, centerY, juliaC : host doubles, in units
\*   zoom                     : 1000 * log10(zoom)
\*   power                    : thousandths
\*   maxIter, numberBase, colorScheme : halves (an odd value is k + 0.5)
\*   colorOffset              : whole numbers
\* ------------------------------------------------------------------------
\* an array element that is undefined
Undefined == -Pow2(30)

ZoomLogMin == -1000
ZoomLogMax == 15000
PowerMin == 1000
PowerMax == 12000
MaxIterMin == 10
MaxIterMax == 10000
NumberBaseMin == 2
NumberBaseMax == 60
ColorSchemeMin == 0
ColorSchemeMax == 7
ColorOffsetWrap == 100
MaxHistorySize == 50

\* DEFAULT_STATE
DEFAULT_STATE ==
  [centerX |-> -(Unit \div 2), centerY |-> 0, zoom |-> 0,
   power |-> 2000, maxIter |-> 2 * 256,
   numberBase |-> 2 * 10, colorScheme |-> 2 * 3, colorOffset |-> 0,
   burningShip |-> FALSE, juliaMode |-> FALSE,
   juliaC |-> <<-((2 * Unit) \div 5), (3 * Unit) \div 5>>,
   width |-> 1200, height |-> 900]

\* { ...a, ...b }
Spread(a, b) ==
  [k \in (DOMAIN a) \cup (DOMAIN b) |-> IF k \in DOMAIN b THEN b[k] ELSE a[k]]

\* Math.floor of a number held in halves
MathFloor(h) == 2 * (h \div 2)

\* the JavaScript remainder a % b for b > 0: the sign follows the dividend
JsRem(a, b) == IF a >= 0 THEN a % b ELSE -((-a) % b)

validateChanges(changes) ==
  LET keep == {k \in DOMAIN changes : ~(k = "juliaC" /\ Len(changes[k]) # 2)}
  IN  [k \in keep |->
        CASE k = "power" -> Max2(PowerMin, Min2(PowerMax, changes[k]))
          [] k = "maxIter" ->
               Max2(2 * MaxIterMin, Min2(2 * MaxIterMax, MathFloor(changes[k])))
          [] k = "zoom" -> Max2(ZoomLogMin, Min2(ZoomLogMax, changes[k]))
          [] k = "numberBase" ->
               Max2(2 * NumberBaseMin, Min2(2 * NumberBaseMax, MathFloor(changes[k])))
          [] k = "colorScheme" ->
               Max2(2 * ColorSchemeMin, Min2(2 * ColorSchemeMax, MathFloor(changes[k])))
          [] k = "colorOffset" ->
               (JsRem(changes[k], ColorOffsetWrap) + ColorOffsetWrap) % ColorOffsetWrap
          [] OTHER -> changes[k]]

hasChangesAlways(st, validated) == TRUE

\* Object.keys(validatedChanges).some(key => oldVal !== newVal)
hasChanges(st, validated) ==
  \E k \in DOMAIN validated : k \notin DOMAIN st \/ st[k] # validated[k]

\* _pushHistory that records nothing
pushHistorySkip(hist, idx, st) == [h |-> hist, i |-> idx]

\* _pushHistory that keeps the forward history
pushHistoryKeepForward(hist, idx, st) ==
  LET pushed == Append(hist, st)
  IN  IF Len(pushed) > MaxHistorySize
      THEN [h |-> Tail(pushed), i |-> Len(pushed) - 2]
      ELSE [h |-> pushed, i |-> Len(pushed) - 1]

\* _pushHistory that never shifts the oldest snapshot out
pushHistoryUnbounded(hist, idx, st) ==
  LET pushed == Append(SubSeq(hist, 1, idx + 1), st)
  IN  [h |-> pushed, i |-> Len(pushed) - 1]

\* history and index after _pushHistory
pushHistory(hist, idx, st) ==
  LET pushed == Append(SubSeq(hist, 1, idx + 1), st)
  IN  IF Len(pushed) > MaxHistorySize
      THEN [h |-> Tail(pushed), i |-> Len(pushed) - 2]
      ELSE [h |-> pushed, i |-> Len(pushed) - 1]

\* the listeners whose callback throws
Throwing == {"bad"}

\* _notifyListeners without the try / catch: the first exception ends the loop
notifyListenersUncaught(ls) ==
  IF \E i \in 1..Len(ls) : ls[i] \in Throwing
  THEN SubSeq(ls, 1, CHOOSE i \in 1..Len(ls) :
                       /\ ls[i] \in Throwing
                       /\ \A j \in 1..(i - 1) : ls[j] \notin Throwing)
  ELSE ls

\* the listeners _notifyListeners invokes, in order: forEach visits every
\* listener of the Set, and an exception of one is caught and logged
notifyListeners(ls) == ls

\* the options of a call that gives none
NoOptions == [addToHistory |-> FALSE, silent |-> FALSE]

\* whether _pushHistory at index idx shifts the oldest snapshot out
shiftsOut(idx) == idx + 2 > MaxHistorySize

\* Object.keys(o), as a set
keysOf(o) == DOMAIN o

\* the effect of update(changes, {silent, addToHistory})
DoUpdate(changes, addToHistory, silent) ==
  LET validated == validateChanges(changes)
  IN  /\ opts' = [addToHistory |-> addToHistory, silent |-> silent]
      /\ UNCHANGED <<listeners, subs>>
      /\ IF ~hasChanges(state, validated)
         THEN /\ UNCHANGED <<state, history, historyIndex, pending, dropped>>
              /\ notified' = FALSE
              /\ invoked' = <<>>
              /\ changedKeys' = {}
         ELSE /\ state' = Spread(state, validated)
              /\ notified' = ~silent
              /\ invoked' = IF silent THEN <<>> ELSE notifyListeners(listeners)
              /\ changedKeys' = IF silent THEN {} ELSE keysOf(validated)
              /\ IF addToHistory
                 THEN /\ \E ph \in {pushHistory(history, historyIndex, state)} :
                           history' = ph.h /\ historyIndex' = ph.i
                      /\ pending' = Append(pending, state)
                      /\ dropped' = IF shiftsOut(historyIndex)
                                    THEN dropped + 1 ELSE dropped
                 ELSE UNCHANGED <<history, historyIndex, pending, dropped>>

\* the effect of undo()
DoUndo ==
  /\ opts' = NoOptions
  /\ UNCHANGED <<history, dropped, listeners, subs>>
  /\ IF historyIndex < 0
     THEN /\ UNCHANGED <<state, historyIndex>>
          /\ ret' = "false"
          /\ notified' = FALSE
          /\ invoked' = <<>>
          /\ changedKeys' = {}
     ELSE /\ state' = history[historyIndex + 1]
          /\ historyIndex' = historyIndex - 1
          /\ ret' = "true"
          /\ notified' = TRUE
          /\ invoked' = notifyListeners(listeners)
          /\ changedKeys' = keysOf(history[historyIndex + 1])
  /\ pending' = IF historyIndex < 0 \/ pending = <<>> THEN pending
                ELSE SubSeq(pending, 1, Len(pending) - 1)

\* a new FractalState object holding st
DoNew(st) ==
  /\ state' = st
  /\ history' = <<>>
  /\ historyIndex' = -1
  /\ opts' = NoOptions
  /\ ret' = "state"
  /\ notified' = FALSE
  /\ pending' = <<>>
  /\ dropped' = 0
  /\ listeners' = <<>>
  /\ invoked' = <<>>
  /\ changedKeys' = {}
  /\ subs' = [issued |-> {}, active |-> {}]

Count(name, arg) ==
  /\ nOps < MaxOps
  /\ nOps' = nOps + 1
  /\ lastOp' = [op |-> name, arg |-> arg]

HistoryRoom(addToHistory) == addToHistory => Len(history) < MaxHistory

\* --- inputs of the FractalState operations ---
CenterVals == {-(Unit \div 2), 0, -((Unit \div 2) + 3), (Unit \div 4) + 13}

InitialStates ==
  { <<>>,
    [zoom |-> 699, power |-> 3000],
    [zoom |-> 20000],
    [maxIter |-> 2 * 5],
    [maxIter |-> 2 * 10 + 1, colorOffset |-> 250] }

UpdateInputs ==
  { [zoom |-> -3000], [zoom |-> 16000], [zoom |-> 6001],
    [power |-> 0], [power |-> 100000], [power |-> 2005],
    [maxIter |-> 2 * 1], [maxIter |-> 2 * 100000], [maxIter |-> 2 * 300 + 1],
    [numberBase |-> 2 * 100], [numberBase |-> 2 * 16 + 1],
    [colorScheme |-> 2 * 19], [colorScheme |-> 2 * 5], [colorScheme |-> -2],
    [colorOffset |-> 150], [colorOffset |-> -30],
    [juliaMode |-> TRUE], [burningShip |-> TRUE],
    [juliaC |-> <<Unit>>], [juliaC |-> <<0, Unit>>],
    [centerX |-> -((Unit \div 2) + 3)] }

Presets ==
  { [name |-> "Cubic", power |-> 3000, centerX |-> 0, centerY |-> 0, zoom |-> 0,
     burningShip |-> FALSE, juliaMode |-> FALSE],
    [name |-> "Burning Ship", power |-> 2000, centerX |-> -(Unit \div 2),
     centerY |-> -(Unit \div 2), zoom |-> 0, burningShip |-> TRUE,
     juliaMode |-> FALSE],
    [name |-> "Julia", power |-> 2000, centerX |-> 0, centerY |-> 0, zoom |-> 0,
     burningShip |-> FALSE, juliaMode |-> TRUE,
     juliaC |-> <<-((3 * Unit) \div 4), 0>>] }

\* 1000 * log10 of the zoom factors 0.5, 1.5, 2 and 1e20
ZoomFactors == {-301, 176, 301, 20000}

\* JSON.parse(JSON.stringify(v)): a key whose value is undefined is left out
jsonRoundTrip(v) == [k \in {j \in DOMAIN v : v[j] # Undefined} |-> v[k]]

\* toURLParams() of a store holding st, as fromURLParams decodes it
toURLParams(st) ==
  LET viewState ==
        [x |-> st.centerX, y |-> st.centerY, z |-> st.zoom, p |-> st.power,
         i |-> st.maxIter, b |-> st.numberBase, c |-> st.colorScheme]
      bs == IF st.burningShip THEN [bs |-> 1] ELSE <<>>
      jm == IF st.juliaMode
            THEN [jm |-> 1, jx |-> st.juliaC[1], jy |-> st.juliaC[2]]
            ELSE <<>>
  IN  [ok |-> TRUE, v |-> jsonRoundTrip(Spread(Spread(viewState, bs), jm))]

\* the states of the stores whose toURLParams() is shared
SharedStates ==
  { Spread(DEFAULT_STATE, init) :
      init \in { <<>>,
                 [centerX |-> 0, centerY |-> Unit \div 4, zoom |-> 699,
                  power |-> 4000],
                 [juliaMode |-> TRUE,
                  juliaC |-> <<(3 * Unit) \div 10, -(Unit \div 2)>>],
                 [burningShip |-> TRUE, maxIter |-> 2 * 500,
                  numberBase |-> 2 * 16, colorScheme |-> 2 * 5],
                 [zoom |-> 20000] } }

\* decoded view states; ok = FALSE is input that atob or JSON.parse rejects
ViewStates ==
  { toURLParams(st) : st \in SharedStates } \cup
  { [ok |-> FALSE, v |-> <<>>],
    [ok |-> TRUE, v |-> <<>>],
    [ok |-> TRUE, v |-> [x |-> 0, y |-> 0, z |-> 20000, p |-> 500,
                         i |-> 2 * 3, b |-> 2 * 1, c |-> 2 * 12]],
    [ok |-> TRUE, v |-> [x |-> 0, y |-> 0, z |-> 3000, p |-> 2000,
                         i |-> 2 * 500, b |-> 2 * 10, c |-> 2 * 3, bs |-> 1,
                         jm |-> 1, jx |-> 0, jy |-> Unit]],
    [ok |-> TRUE, v |-> [jm |-> 1]] }

JsonInputs ==
  { [ok |-> FALSE, v |-> <<>>],
    [ok |-> TRUE, v |-> [zoom |-> -3000, maxIter |-> 2 * 20000]],
    [ok |-> TRUE, v |-> [power |-> 13000, numberBase |-> 3]] }

\* --- operations ---
StateInit ==
  /\ state = DEFAULT_STATE
  /\ history = <<>>
  /\ historyIndex = -1
  /\ lastOp = [op |-> "new", arg |-> <<>>]
  /\ nOps = 0
  /\ opts = NoOptions
  /\ ret = "state"
  /\ notified = FALSE
  /\ pending = <<>>
  /\ dropped = 0
  /\ listeners = <<>>
  /\ invoked = <<>>
  /\ changedKeys = {}
  /\ subs = [issued |-> {}, active |-> {}]

\* new FractalState(initialState)
Construct ==
  \E init \in InitialStates :
    /\ Count("new", init)
    /\ DoNew(Spread(DEFAULT_STATE, init))
    /\ UNCHANGED <<zoomVars, uiVars, arithVars, renderVars, shaderVars, iterVars, colorVars,
                 animVars, loopVars>>

\* FractalState.fromJSON(json)
FromJSON ==
  \E json \in JsonInputs :
    /\ Count("fromJSON", json)
    /\ DoNew(IF json.ok THEN Spread(DEFAULT_STATE, json.v) ELSE DEFAULT_STATE)
    /\ UNCHANGED <<zoomVars, uiVars, arithVars, renderVars, shaderVars, iterVars, colorVars,
                 animVars, loopVars>>

Update ==
  \E changes \in UpdateInputs, addToHistory \in BOOLEAN, silent \in BOOLEAN :
    /\ HistoryRoom(addToHistory)
    /\ Count("update", changes)
    /\ DoUpdate(changes, addToHistory, silent)
    /\ ret' = "state"
    /\ UNCHANGED <<zoomVars, uiVars, arithVars, renderVars, shaderVars, iterVars, colorVars,
                 animVars, loopVars>>

Reset ==
  \E addToHistory \in BOOLEAN :
    /\ HistoryRoom(addToHistory)
    /\ Count("reset", <<>>)
    /\ DoUpdate(DEFAULT_STATE, addToHistory, FALSE)
    /\ ret' = "state"
    /\ UNCHANGED <<zoomVars, uiVars, arithVars, renderVars, shaderVars, iterVars, colorVars,
                 animVars, loopVars>>

Undo ==
  /\ Count("undo", <<>>)
  /\ DoUndo
  /\ UNCHANGED <<zoomVars, uiVars, arithVars, renderVars, shaderVars, iterVars, colorVars,
                 animVars, loopVars>>

ApplyPreset ==
  \E preset \in Presets :
    /\ HistoryRoom(TRUE)
    /\ Count("applyPreset", preset)
    /\ DoUpdate(preset, TRUE, FALSE)
    /\ ret' = "state"
    /\ UNCHANGED <<zoomVars, uiVars, arithVars, renderVars, shaderVars, iterVars, colorVars,
                 animVars, loopVars>>

\* zoomAt(px, py, factor): the new zoom is zoom * factor; the new centre,
\* a function of the pointer position, is any of the modelled centres
ZoomAt ==
  \E factor \in ZoomFactors, cx \in CenterVals, cy \in {0, Unit \div 4} :
    /\ Count("zoomAt", factor)
    /\ DoUpdate([centerX |-> cx, centerY |-> cy, zoom |-> state.zoom + factor],
                FALSE, FALSE)
    /\ ret' = "undefined"
    /\ UNCHANGED <<zoomVars, uiVars, arithVars, renderVars, shaderVars, iterVars, colorVars,
                 animVars, loopVars>>

\* pan(dx, dy): the new centre is any of the modelled centres
Pan ==
  \E cx \in CenterVals, cy \in {0, Unit \div 4} :
    /\ Count("pan", <<cx, cy>>)
    /\ DoUpdate([centerX |-> cx, centerY |-> cy], FALSE, FALSE)
    /\ ret' = "undefined"
    /\ UNCHANGED <<zoomVars, uiVars, arithVars, renderVars, shaderVars, iterVars, colorVars,
                 animVars, loopVars>>

\* viewState.k || dflt
CoalesceFalsy(v, k, dflt) == IF k \in DOMAIN v /\ v[k] # 0 THEN v[k] ELSE dflt

\* viewState.k ?? dflt
Coalesce(v, k, dflt) == IF k \in DOMAIN v THEN v[k] ELSE dflt

\* !!viewState.k
Truthy(v, k) == k \in DOMAIN v /\ v[k] # 0

FromURLParams ==
  \E vs \in ViewStates :
    /\ Count("fromURLParams", vs)
    /\ IF ~vs.ok
       THEN /\ UNCHANGED <<state, history, historyIndex, pending, dropped,
                           listeners, subs>>
            /\ opts' = NoOptions
            /\ ret' = "false"
            /\ notified' = FALSE
            /\ invoked' = <<>>
            /\ changedKeys' = {}
       ELSE DoUpdate(
              [centerX |-> Coalesce(vs.v, "x", state.centerX),
               centerY |-> Coalesce(vs.v, "y", state.centerY),
               zoom |-> Coalesce(vs.v, "z", state.zoom),
               power |-> Coalesce(vs.v, "p", state.power),
               maxIter |-> Coalesce(vs.v, "i", state.maxIter),
               numberBase |-> Coalesce(vs.v, "b", state.numberBase),
               colorScheme |-> Coalesce(vs.v, "c", state.colorScheme),
               burningShip |-> Truthy(vs.v, "bs"),
               juliaMode |-> Truthy(vs.v, "jm"),
               juliaC |-> IF Truthy(vs.v, "jm")
                          THEN <<Coalesce(vs.v, "jx", Undefined),
                                 Coalesce(vs.v, "jy", Undefined)>>
                          ELSE state.juliaC],
              FALSE, FALSE) /\ ret' = "true"
    /\ UNCHANGED <<zoomVars, uiVars, arithVars, renderVars, shaderVars, iterVars, colorVars,
                 animVars, loopVars>>

\* --- long runs of recorded updates and undos on one store ---
MaxPending == 51
MaxDropped == 1

\* 1000 * log10 of the zoom factors 2 and 4
LongZooms == {301, 602}

\* update({zoom}, {addToHistory: true})
RecordUpdate ==
  \E zoom \in LongZooms :
    /\ Len(pending) < MaxPending
    /\ dropped < MaxDropped
    /\ lastOp' = [op |-> "update", arg |-> [zoom |-> zoom]]
    /\ UNCHANGED nOps
    /\ DoUpdate([zoom |-> zoom], TRUE, FALSE)
    /\ ret' = "state"
    /\ UNCHANGED <<zoomVars, uiVars, arithVars, renderVars, shaderVars, iterVars, colorVars,
                 animVars, loopVars>>

\* undo()
UndoRecorded ==
  /\ lastOp' = [op |-> "undo", arg |-> <<>>]
  /\ UNCHANGED nOps
  /\ DoUndo
  /\ UNCHANGED <<zoomVars, uiVars, arithVars, renderVars, shaderVars, iterVars, colorVars,
                 animVars, loopVars>>

HistoryNext ==
  \/ RecordUpdate
  \/ UndoRecorded

\* --- one store with listeners subscribing and unsubscribing ---
\* the arguments of subscribe: three functions and a string
ListenerArgs == {"first", "bad", "last", "not a function"}

ListenerFns == ListenerArgs \ {"not a function"}

\* 1000 * log10 of the zooms 2 and 4, the default zoom 1, and a zoom over the
\* upper limit
ListenZooms == {0, 301, 602, 16000}

\* the Set after add(listener)
SetAdd(ls, listener) ==
  IF \E i \in 1..Len(ls) : ls[i] = listener THEN ls ELSE Append(ls, listener)

\* the Set after delete(listener)
SetDelete(ls, listener) == SelectSeq(ls, LAMBDA l : l # listener)

\* subscribe(listener)
Subscribe ==
  \E listener \in ListenerArgs :
    /\ lastOp' = [op |-> "subscribe", arg |-> listener]
    /\ opts' = NoOptions
    /\ notified' = FALSE
    /\ invoked' = <<>>
    /\ changedKeys' = {}
    /\ IF listener \notin ListenerFns
       THEN /\ ret' = "throws"
            /\ UNCHANGED <<listeners, subs>>
       ELSE /\ ret' = "unsubscribe"
            /\ listeners' = SetAdd(listeners, listener)
            /\ subs' = [issued |-> subs.issued \cup {listener},
                        active |-> subs.active \cup {listener}]
    /\ UNCHANGED <<state, history, historyIndex, nOps, pending, dropped>>
    /\ UNCHANGED <<zoomVars, uiVars, arithVars, renderVars, shaderVars, iterVars, colorVars,
                 animVars, loopVars>>

\* a call of the function subscribe(listener) returned
Unsubscribe ==
  \E listener \in subs.issued :
    /\ lastOp' = [op |-> "unsubscribe", arg |-> listener]
    /\ opts' = NoOptions
    /\ notified' = FALSE
    /\ invoked' = <<>>
    /\ changedKeys' = {}
    /\ ret' = "undefined"
    /\ listeners' = SetDelete(listeners, listener)
    /\ subs' = [subs EXCEPT !.active = @ \ {listener}]
    /\ UNCHANGED <<state, history, historyIndex, nOps, pending, dropped>>
    /\ UNCHANGED <<zoomVars, uiVars, arithVars, renderVars, shaderVars, iterVars, colorVars,
                 animVars, loopVars>>

\* update({zoom}, {silent})
ListenUpdate ==
  \E zoom \in ListenZooms, silent \in BOOLEAN :
    /\ lastOp' = [op |-> "update", arg |-> [zoom |-> zoom]]
    /\ UNCHANGED nOps
    /\ DoUpdate([zoom |-> zoom], FALSE, silent)
    /\ ret' = "state"
    /\ UNCHANGED <<zoomVars, uiVars, arithVars, renderVars, shaderVars, iterVars, colorVars,
                 animVars, loopVars>>

ListenNext ==
  \/ Subscribe
  \/ Unsubscribe
  \/ ListenUpdate

StateNext ==
  \/ Construct
  \/ FromJSON
  \/ Update
  \/ Reset
  \/ Undo
  \/ ApplyPreset
  \/ ZoomAt
  \/ Pan
  \/ FromURLParams

\* ------------------------------------------------------------------------
\* WebGLRenderer.render and the fragment shader
\* ------------------------------------------------------------------------
DoubleThreshold == 6000
LoopBound == 2000
Bailout == 256
MinDistInit == 1000

NoUniforms ==
  [u_center |-> <<0, 0>>, u_centerLow |-> <<0, 0>>, u_zoom |-> 0, u_power |-> 0,
   u_maxIter |-> 0, u_base |-> 0, u_colorScheme |-> 0, u_colorOffset |-> 0,
   u_burningShip |-> 0, u_juliaMode |-> 0, u_juliaC |-> <<0, 0>>,
   u_coloringMode |-> 0, u_useDoublePrecision |-> 0]

NoPixel ==
  [off |-> <<0, 0>>, path |-> "none", i |-> 0, steps |-> 0,
   cx |-> <<0, 0>>, cy |-> <<0, 0>>, zx |-> <<0, 0>>, zy |-> <<0, 0>>,
   z |-> <<0, 0>>, dz |-> <<0, 0>>, minDistSq |-> 0, minDistCross |-> 0,
   iterations |-> 0, escaped |-> FALSE, exit |-> "none", produced |-> {}]

NoFrag ==
  [interior |-> FALSE, black |-> FALSE, scheme |-> -1, distanceSet |-> FALSE,
   trap |-> "none"]

NoSplit == [x |-> <<0, 0>>, y |-> <<0, 0>>]

splitDoubleSwapped(value) == <<HSub(value, value), value>>

\* const hi = value; const lo = value - hi; return [hi, lo]
splitDouble(value) ==
  LET hi == value
      lo == HSub(value, hi)
  IN  <<hi, lo>>

useDoublePrecisionAtLeast(st) == IF st.zoom >= DoubleThreshold THEN 1 ELSE 0

\* state.zoom > 1e6 ? 1.0 : 0.0
useDoublePrecision(st) == IF st.zoom > DoubleThreshold THEN 1 ELSE 0

\* updateUniforms without the upload of u_zoom, which keeps an earlier value
updateUniformsStaleZoom(st) ==
  [u_center |-> <<Float32(st.centerX), Float32(st.centerY)>>,
   u_centerLow |-> <<0, 0>>,
   u_zoom |-> DEFAULT_STATE.zoom,
   u_power |-> st.power,
   u_maxIter |-> st.maxIter,
   u_base |-> st.numberBase,
   u_colorScheme |-> st.colorScheme,
   u_colorOffset |-> st.colorOffset,
   u_burningShip |-> IF st.burningShip THEN 1 ELSE 0,
   u_juliaMode |-> IF st.juliaMode THEN 1 ELSE 0,
   u_juliaC |-> <<Float32(st.juliaC[1]), Float32(st.juliaC[2])>>,
   u_coloringMode |-> IF "coloringMode" \in DOMAIN st THEN st.coloringMode ELSE 0,
   u_useDoublePrecision |-> IF st.zoom > DoubleThreshold THEN 1 ELSE 0]

\* the uniforms after updateUniforms(st); gl.uniform*f converts each number
\* to a GPU float
updateUniforms(st) ==
  LET sx == splitDouble(st.centerX)
      sy == splitDouble(st.centerY)
  IN  [u_center |-> <<Float32(sx[1]), Float32(sy[1])>>,
       u_centerLow |-> <<Float32(sx[2]), Float32(sy[2])>>,
       u_zoom |-> st.zoom,
       u_power |-> st.power,
       u_maxIter |-> st.maxIter,
       u_base |-> st.numberBase,
       u_colorScheme |-> st.colorScheme,
       u_colorOffset |-> st.colorOffset,
       u_burningShip |-> IF st.burningShip THEN 1 ELSE 0,
       u_juliaMode |-> IF st.juliaMode THEN 1 ELSE 0,
       u_juliaC |-> <<Float32(st.juliaC[1]), Float32(st.juliaC[2])>>,
       u_coloringMode |-> IF "coloringMode" \in DOMAIN st THEN st.coloringMode ELSE 0,
       u_useDoublePrecision |-> useDoublePrecision(st)]

\* abs(n - 2.0) < 0.01, n in thousandths
NearTwo(n) == Abs(n - 2000) < 10

\* the condition of the precision switch in main()
usesDoublePath(u) ==
  /\ u.u_useDoublePrecision = 1
  /\ NearTwo(u.u_power)
  /\ u.u_juliaMode = 0
  /\ u.u_burningShip = 0

complexMul(a, b) ==
  <<FSub(FMul(a[1], b[1]), FMul(a[2], b[2])),
    FAdd(FMul(a[1], b[2]), FMul(a[2], b[1]))>>

RECURSIVE complexPowInt(_, _)
complexPowInt(z, n) ==
  IF n <= 0 THEN <<Unit, 0>>
  ELSE IF n = 1 THEN z
  ELSE complexMul(complexPowInt(z, n - 1), z)

\* complexPower(z, n), n in thousandths.  The polar branch is modelled for
\* whole exponents, as the product of n factors rounded after each one.
complexPower(z, n) ==
  IF NearTwo(n)
  THEN <<FSub(FMul(z[1], z[1]), FMul(z[2], z[2])),
         FMul(FMul(2 * Unit, z[1]), z[2])>>
  ELSE complexPowInt(z, n \div 1000)

dot(a, b) == FAdd(FMul(a[1], b[1]), FMul(a[2], b[2]))

\* --- inputs of the renderer ---
\* uv * 2.0 / u_zoom of the pixel being shaded, in units
PixelOffsets ==
  {<<0, 0>>, <<Unit + (Unit \div 4) + 3, 0>>, <<Unit - 26, Unit \div 2>>}

RenderInputs ==
  { [zoom |-> 6000], [zoom |-> 6001], [zoom |-> 6001, power |-> 2005],
    [power |-> 3000],
    [juliaMode |-> TRUE], [burningShip |-> TRUE],
    [maxIter |-> 2 * 12], [maxIter |-> 2 * 2001],
    [colorScheme |-> 2 * 19],
    [centerX |-> -((Unit \div 2) + 3)],
    [coloringMode |-> 1], [coloringMode |-> 2] }

NoSnap == <<>>

RenderInit ==
  /\ uniforms = NoUniforms
  /\ snap = NoSnap
  /\ split = NoSplit
  /\ pc = "idle"
  /\ px = NoPixel
  /\ frag = NoFrag

\* a state update between two frames
RenderUpdate ==
  \E changes \in RenderInputs :
    /\ pc = "idle"
    /\ nOps < MaxUpdates
    /\ nOps' = nOps + 1
    /\ lastOp' = [op |-> "update", arg |-> changes]
    /\ DoUpdate(changes, FALSE, FALSE)
    /\ ret' = "state"
    /\ UNCHANGED renderVars
    /\ UNCHANGED <<zoomVars, uiVars, arithVars, shaderVars, iterVars, colorVars,
                 animVars, loopVars>>

\* render(state.getState()): updateUniforms, then drawArrays
Render ==
  /\ pc = "idle"
  /\ snap' = state
  /\ split' = [x |-> splitDouble(state.centerX), y |-> splitDouble(state.centerY)]
  /\ uniforms' = updateUniforms(state)
  /\ pc' = "draw"
  /\ UNCHANGED <<px, frag>>
  /\ UNCHANGED <<zoomVars, uiVars, stateVars, arithVars, shaderVars, iterVars, colorVars,
                 animVars, loopVars>>

\* main() of the fragment shader up to the loop, for one pixel of the frame
ShadeBeginWith(u) ==
  \E off \in PixelOffsets :
    /\ pc = "draw"
    /\ LET start == [NoPixel EXCEPT !.off = off, !.dz = <<Unit, 0>>,
                       !.minDistSq = MinDistInit * MinDistInit * Unit,
                       !.minDistCross = MinDistInit * Unit]
       IN  IF usesDoublePath(u)
           THEN LET cxDD == ddAdd(<<u.u_center[1], u.u_centerLow[1]>>, ddFromFloat(off[1]))
                    cyDD == ddAdd(<<u.u_center[2], u.u_centerLow[2]>>, ddFromFloat(off[2]))
                IN  /\ px' = [start EXCEPT !.path = "dd", !.cx = cxDD, !.cy = cyDD,
                                !.produced = {cxDD, cyDD}]
                    /\ pc' = "dd"
           ELSE LET c == <<FAdd(u.u_center[1], off[1]), FAdd(u.u_center[2], off[2])>>
                IN  /\ px' = IF u.u_juliaMode = 1
                             THEN [start EXCEPT !.path = "std", !.z = c,
                                     !.cx = <<u.u_juliaC[1], 0>>,
                                     !.cy = <<u.u_juliaC[2], 0>>]
                             ELSE [start EXCEPT !.path = "std",
                                     !.cx = <<c[1], 0>>, !.cy = <<c[2], 0>>]
                    /\ pc' = "std"
    /\ UNCHANGED <<uniforms, snap, split, frag>>
    /\ UNCHANGED <<zoomVars, uiVars, stateVars, arithVars, shaderVars, iterVars, colorVars,
                 animVars, loopVars>>

ShadeBegin == ShadeBeginWith(uniforms)

\* the loop leaves through its bound, through the maxIter check, or runs the
\* body; u holds the uniforms, next is the pixel after the body, z the new
\* native-precision z
LoopStep(u, next, z) ==
  IF px.i >= LoopBound
  THEN px' = [px EXCEPT !.exit = "bound"] /\ pc' = "post"
  ELSE IF 2 * px.i >= u.u_maxIter
  THEN px' = [px EXCEPT !.exit = "maxIter"] /\ pc' = "post"
  ELSE LET magSq == dot(z, z)
           body == [next EXCEPT !.z = z, !.steps = px.steps + 1,
                      !.minDistSq = Min2(px.minDistSq, magSq),
                      !.minDistCross = Min2(px.minDistCross, Min2(Abs(z[1]), Abs(z[2]))),
                      !.iterations = 2 * px.i]
       IN  IF magSq > Bailout * Unit
           THEN px' = [body EXCEPT !.escaped = TRUE, !.exit = "escape"] /\ pc' = "post"
           ELSE px' = [body EXCEPT !.i = px.i + 1] /\ pc' = pc

\* one pass of the double-double loop
DdStepWith(u) ==
  \E sq \in {ddComplexSquare(px.zx, px.zy)} :
    \E zxDD \in {ddAdd(sq[1], px.cx)}, zyDD \in {ddAdd(sq[2], px.cy)} :
      /\ pc = "dd"
      /\ LoopStep(u, [px EXCEPT !.zx = zxDD, !.zy = zyDD,
                        !.produced = {ddMul(px.zx, px.zx), ddMul(px.zy, px.zy),
                                      ddMul(px.zx, px.zy), sq[1], sq[2], zxDD, zyDD}],
                  <<zxDD[1], zyDD[1]>>)
      /\ UNCHANGED <<uniforms, snap, split, frag>>
      /\ UNCHANGED <<zoomVars, uiVars, stateVars, arithVars, shaderVars, iterVars, colorVars,
                 animVars, loopVars>>

DdStep == DdStepWith(uniforms)

\* the float value of u_power
PowerFloat(n) == (n * Unit) \div 1000

\* one pass of the native-precision loop
StdStepWith(u) ==
  /\ pc = "std"
  /\ LET c == <<px.cx[1], px.cy[1]>>
         z0 == IF u.u_burningShip = 1 THEN <<Abs(px.z[1]), Abs(px.z[2])>> ELSE px.z
         zdz == IF NearTwo(u.u_power)
                THEN complexMul(z0, px.dz)
                ELSE complexMul(complexPower(z0, u.u_power - 1000), px.dz)
         k == IF NearTwo(u.u_power) THEN 2 * Unit ELSE PowerFloat(u.u_power)
         dz == <<FAdd(FMul(k, zdz[1]), Unit), FMul(k, zdz[2])>>
         zp == complexPower(z0, u.u_power)
         z == <<FAdd(zp[1], c[1]), FAdd(zp[2], c[2])>>
     IN  LoopStep(u, [px EXCEPT !.dz = dz], z)
  /\ UNCHANGED <<uniforms, snap, split, frag>>
  /\ UNCHANGED <<zoomVars, uiVars, stateVars, arithVars, shaderVars, iterVars, colorVars,
                 animVars, loopVars>>

StdStep == StdStepWith(uniforms)

\* iterations < u_maxIter - 0.5.  px.iterations is float(i) in halves; for an
\* escaped pixel the smoothed count i + 1 - nu lies below it, nu being
\* larger than 1 for every power up to 4.
IterBelowCap(u) == px.escaped \/ px.iterations < u.u_maxIter - 1

\* int(scheme) for a scheme held in halves: truncation towards zero
IntOf(h) == IF h >= 0 THEN h \div 2 ELSE -((-h) \div 2)

\* the branch of getColor that produces the colour: the interior formula
\* (lit) or flat black, else the branch of the scheme chain
getColor(belowCap, scheme, lit) ==
  IF ~belowCap
  THEN [interior |-> TRUE, black |-> ~lit, scheme |-> -1]
  ELSE [interior |-> FALSE, black |-> FALSE,
        scheme |-> IF IntOf(scheme) \in 0..18 THEN IntOf(scheme) ELSE 19]

\* interiorValue > 0.01: certain once minDist exceeds 0.02, else decided by
\* the final orbit angle (atan is undefined at the origin)
InteriorLit == IF px.minDistSq >= 1 THEN {TRUE} ELSE {TRUE, FALSE}

\* main() after the loop: distance estimate, orbit trap, interior value, colour
\* float orbitTrap = minDist; if (u_coloringMode > 1.5) orbitTrap =
\* minDistCross
selectOrbitTrapFromOne(u) ==
  IF u.u_coloringMode >= 1 THEN "minDistCross" ELSE "minDist"

selectOrbitTrap(u) == IF u.u_coloringMode >= 2 THEN "minDistCross" ELSE "minDist"

\* what main() hands to getColor and the branch getColor takes, under the
\* uniforms u
shaded(u, lit) ==
  LET col == getColor(IterBelowCap(u), u.u_colorScheme, lit)
  IN  [interior |-> col.interior, black |-> col.black, scheme |-> col.scheme,
       distanceSet |-> (px.dz # <<0, 0>> /\ IterBelowCap(u)),
       trap |-> selectOrbitTrap(u)]

ShadeEndWith(u) ==
  \E lit \in InteriorLit :
    /\ pc = "post"
    /\ frag' = shaded(u, lit)
    /\ pc' = "done"
    /\ UNCHANGED <<uniforms, snap, split, px>>
    /\ UNCHANGED <<zoomVars, uiVars, stateVars, arithVars, shaderVars, iterVars, colorVars,
                 animVars, loopVars>>

ShadeEnd == ShadeEndWith(uniforms)

\* the frame is on screen; the locals of render() and of the shader are gone
EndFrame ==
  /\ pc = "done"
  /\ pc' = "idle"
  /\ snap' = NoSnap
  /\ split' = NoSplit
  /\ px' = NoPixel
  /\ frag' = NoFrag
  /\ UNCHANGED uniforms
  /\ UNCHANGED <<zoomVars, uiVars, stateVars, arithVars, shaderVars, iterVars, colorVars,
                 animVars, loopVars>>

RenderNext ==
  \/ RenderUpdate
  \/ Render
  \/ ShadeBegin
  \/ DdStep
  \/ StdStep
  \/ ShadeEnd
  \/ EndFrame

\* ------------------------------------------------------------------------
\* ShaderManager
\*   a GL object is its handle, a positive integer; 0 is null
\* ------------------------------------------------------------------------
MaxGlObjects == 7

\* program names; "" is the absent name (null)
Names == {"", "mandelbrot", "test"}

Sources == {"valid", "invalid"}

\* what the context answers during one call: whether createShader and
\* createProgram return an object, and the LINK_STATUS of the program
GlOutcomes ==
  [vertexShader : BOOLEAN, fragmentShader : BOOLEAN, program : BOOLEAN,
   link : BOOLEAN]

NoCall ==
  [op |-> "none", name |-> "", hit |-> FALSE, threw |-> "", ret |-> 0,
   compiles |-> <<>>, links |-> 0, args |-> <<>>]

\* gl.getShaderParameter(shader, gl.COMPILE_STATUS)
getShaderParameter(source) == source = "valid"

getProgramParameterIgnored(env) == TRUE

\* gl.getProgramParameter(program, gl.LINK_STATUS)
getProgramParameter(env) == env.link

\* compileShader(source, type) on the context g = [live, next]; created is
\* whether gl.createShader returns an object
compileShader(source, created, g) ==
  IF ~created
  THEN [threw |-> "Failed to create shader", shader |-> 0, g |-> g,
        compiled |-> FALSE]
  ELSE IF ~getShaderParameter(source)
  THEN [threw |-> "Shader compilation error", shader |-> 0,
        g |-> [live |-> g.live, next |-> g.next + 1], compiled |-> TRUE]
  ELSE [threw |-> "", shader |-> g.next,
        g |-> [live |-> g.live \cup {g.next}, next |-> g.next + 1],
        compiled |-> TRUE]

\* the outcome of createProgram that throws
Thrown(m, g, msg, compiles, links) ==
  [m |-> [m EXCEPT !.live = g.live, !.next = g.next], hit |-> FALSE,
   threw |-> msg, ret |-> 0, compiles |-> compiles, links |-> links]

\* createProgram(vertexSource, fragmentSource, name) on the manager
\* m = [programs, shaders, live, next]
createProgram(vertexSource, fragmentSource, name, env, m) ==
  IF name # "" /\ name \in DOMAIN m.programs
  THEN [m |-> m, hit |-> TRUE, threw |-> "", ret |-> m.programs[name],
        compiles |-> <<>>, links |-> 0]
  ELSE
  LET v == compileShader(vertexSource, env.vertexShader,
                         [live |-> m.live, next |-> m.next])
      f == compileShader(fragmentSource, env.fragmentShader, v.g)
      program == f.g.next
      both == {v.shader, f.shader}
      made == [live |-> f.g.live, next |-> f.g.next + 1]
  IN  IF v.threw # ""
      THEN Thrown(m, v.g, v.threw, IF v.compiled THEN <<"vertex">> ELSE <<>>, 0)
      ELSE IF f.threw # ""
      THEN Thrown(m, f.g, f.threw,
                  IF f.compiled THEN <<"vertex", "fragment">> ELSE <<"vertex">>, 0)
      ELSE IF ~env.program
      THEN Thrown(m, [live |-> f.g.live \ both, next |-> f.g.next],
                  "Failed to create program", <<"vertex", "fragment">>, 0)
      ELSE IF ~getProgramParameter(env)
      THEN Thrown(m, [made EXCEPT !.live = @ \ both], "Program link error",
                  <<"vertex", "fragment">>, 1)
      ELSE [m |-> [programs |-> IF name # ""
                                THEN Spread(m.programs, [n \in {name} |-> program])
                                ELSE m.programs,
                   shaders |-> m.shaders \cup
                               {[program |-> program, vertex |-> v.shader,
                                 fragment |-> f.shader]},
                   live |-> made.live \cup {program},
                   next |-> made.next],
            hit |-> FALSE, threw |-> "", ret |-> program,
            compiles |-> <<"vertex", "fragment">>, links |-> 1]

\* deleteProgram that leaves the program in the cache
deleteProgramKeepCached(program, m) ==
  LET own == {s \in m.shaders : s.program = program}
  IN  [programs |-> m.programs,
       shaders |-> m.shaders \ own,
       live |-> (m.live \ {program}) \
                ({s.vertex : s \in own} \cup {s.fragment : s \in own}),
       next |-> m.next]

\* deleteProgram(program) on the manager m
deleteProgram(program, m) ==
  LET own == {s \in m.shaders : s.program = program}
      cached == {n \in DOMAIN m.programs : m.programs[n] = program}
  IN  [programs |-> [n \in (DOMAIN m.programs) \ cached |-> m.programs[n]],
       shaders |-> m.shaders \ own,
       live |-> (m.live \ {program}) \
                ({s.vertex : s \in own} \cup {s.fragment : s \in own}),
       next |-> m.next]

\* deleteProgram applied to each program of the set ps, as dispose() does
RECURSIVE deleteAll(_, _)
deleteAll(ps, m) ==
  IF ps = {} THEN m
  ELSE LET p == CHOOSE q \in ps : TRUE
       IN  deleteAll(ps \ {p}, deleteProgram(p, m))

Manager == [programs |-> programs, shaders |-> shaders, live |-> glLive,
            next |-> glNext]

SetManager(m) ==
  /\ programs' = m.programs
  /\ shaders' = m.shaders
  /\ glLive' = m.live
  /\ glNext' = m.next

ShaderInit ==
  /\ programs = <<>>
  /\ shaders = {}
  /\ glLive = {}
  /\ glNext = 1
  /\ call = NoCall

CreateProgram ==
  \E vertexSource \in Sources, fragmentSource \in Sources, name \in Names,
     env \in GlOutcomes :
    /\ \/ name # "" /\ name \in DOMAIN programs
       \/ glNext + 2 <= MaxGlObjects
    /\ \E r \in {createProgram(vertexSource, fragmentSource, name, env, Manager)} :
         /\ SetManager(r.m)
         /\ call' = [op |-> "createProgram", name |-> name, hit |-> r.hit,
                     threw |-> r.threw, ret |-> r.ret, compiles |-> r.compiles,
                     links |-> r.links,
                     args |-> [vertexSource |-> vertexSource,
                               fragmentSource |-> fragmentSource, env |-> env]]
    /\ UNCHANGED <<zoomVars, uiVars, arithVars, stateVars, renderVars, iterVars, colorVars,
                 animVars, loopVars>>

DeleteProgram ==
  \E s \in shaders :
    /\ SetManager(deleteProgram(s.program, Manager))
    /\ call' = [NoCall EXCEPT !.op = "deleteProgram", !.ret = s.program]
    /\ UNCHANGED <<zoomVars, uiVars, arithVars, stateVars, renderVars, iterVars, colorVars,
                 animVars, loopVars>>

\* dispose(): every cached program is deleted, then both maps are cleared
Dispose ==
  /\ \E m \in {deleteAll({programs[n] : n \in DOMAIN programs}, Manager)} :
       SetManager([m EXCEPT !.programs = <<>>, !.shaders = {}])
  /\ call' = [NoCall EXCEPT !.op = "dispose"]
  /\ UNCHANGED <<zoomVars, uiVars, arithVars, stateVars, renderVars, iterVars, colorVars,
                 animVars, loopVars>>

\* getProgram(name): this._programs.get(name) || null
GetProgram ==
  \E name \in Names :
    /\ call' = [NoCall EXCEPT !.op = "getProgram", !.name = name,
                  !.ret = IF name \in DOMAIN programs THEN programs[name] ELSE 0]
    /\ UNCHANGED <<programs, shaders, glLive, glNext>>
    /\ UNCHANGED <<zoomVars, uiVars, arithVars, stateVars, renderVars, iterVars, colorVars,
                 animVars, loopVars>>

ShaderNext ==
  \/ CreateProgram
  \/ DeleteProgram
  \/ Dispose
  \/ GetProgram

\* ------------------------------------------------------------------------
\* ComplexMath: the escape-time functions of the host
\*   complex numbers are pairs of doubles, in units; maxIter and the
\*   returned counts are whole numbers
\* ------------------------------------------------------------------------
MaxIterations == 8
TestMaxIter == 100
EscapeRadiusSq == 4
SmoothRadiusSq == 256

complexAdd(a, b) == <<HAdd(a[1], b[1]), HAdd(a[2], b[2])>>

complexMultiply(a, b) ==
  <<HSub(HMul(a[1], b[1]), HMul(a[2], b[2])),
    HAdd(HMul(a[1], b[2]), HMul(a[2], b[1]))>>

RECURSIVE hostPowInt(_, _)
hostPowInt(z, n) ==
  IF n <= 0 THEN <<Unit, 0>>
  ELSE IF n = 1 THEN z
  ELSE complexMultiply(hostPowInt(z, n - 1), z)

\* complexPower(z, n) of ComplexMath, n in thousandths.  The polar branch is
\* modelled for whole exponents, as the product of n factors.
hostComplexPower(z, n) ==
  IF NearTwo(n)
  THEN <<HSub(HMul(z[1], z[1]), HMul(z[2], z[2])),
         HMul(HMul(2 * Unit, z[1]), z[2])>>
  ELSE IF z = <<0, 0>> THEN <<0, 0>>
  ELSE hostPowInt(z, n \div 1000)

magnitudeSquared(z) == HAdd(HMul(z[1], z[1]), HMul(z[2], z[2]))

exceedsOrReaches(z, radiusSq) == magnitudeSquared(z) >= radiusSq * Unit

\* magnitudeSquared(z) > 4 (> 256 in smoothIteration)
exceeds(z, radiusSq) == magnitudeSquared(z) > radiusSq * Unit

shipFoldOff(z, burningShip) == z

\* if (burningShip) z = [Math.abs(z[0]), Math.abs(z[1])]
shipFold(z, burningShip) ==
  IF burningShip THEN <<Abs(z[1]), Abs(z[2])>> ELSE z

\* z = complexAdd(complexPower(z, power), constant), after the Burning Ship
\* step when it is on
mandelbrotPass(z, constant, power, burningShip) ==
  complexAdd(hostComplexPower(shipFold(z, burningShip), power), constant)

\* let z = juliaMode ? [...c] : [0, 0]
startZ(c, options) == IF options.juliaMode THEN c ELSE <<0, 0>>

\* const constant = juliaMode ? juliaC : c
constantOf(c, options) == IF options.juliaMode THEN options.juliaC ELSE c

\* --- inputs of the escape-time functions ---
\* 0, -2, 1, 0.5 + 0.5i, 10 + 10i, -0.75 + 0.25i
IterPoints ==
  { <<0, 0>>, <<-(2 * Unit), 0>>, <<Unit, 0>>, <<Unit \div 2, Unit \div 2>>,
    <<10 * Unit, 10 * Unit>>, <<-((3 * Unit) \div 4), Unit \div 4>> }

IterOptions ==
  { [burningShip |-> b, juliaMode |-> j, juliaC |-> k] :
      b \in BOOLEAN, j \in BOOLEAN, k \in {<<0, 0>>} } \cup
  { [burningShip |-> FALSE, juliaMode |-> TRUE,
     juliaC |-> <<-((3 * Unit) \div 4), 0>>] }

IterInputs ==
  [c : IterPoints, maxIter : (1..MaxIterations) \cup {TestMaxIter},
   power : {2000, 3000}, options : IterOptions]

\* the call in progress: the function, its locals z and i, and, once it has
\* returned, the value.  smoothIteration returns i + 1 - nu for an escaping
\* point, nu a function of the escaping magnitude: ret = i + 1 with that
\* magnitude in magSq stands for it.
NoResult ==
  [fn |-> "none", z |-> <<0, 0>>, i |-> 0, done |-> FALSE, ret |-> 0,
   magSq |-> 0]

IterIdle ==
  /\ iterIn = [c |-> <<0, 0>>, maxIter |-> 1, power |-> 2000,
               options |-> [burningShip |-> FALSE, juliaMode |-> FALSE,
                            juliaC |-> <<0, 0>>]]
  /\ iterOut = NoResult

IterInit ==
  /\ iterIn \in IterInputs
  /\ iterOut = NoResult

\* mandelbrotIteration(c, maxIter, power, options) up to its loop
CallMandelbrotIteration ==
  /\ iterOut.fn = "none"
  /\ iterOut' = [NoResult EXCEPT !.fn = "mandelbrotIteration",
                   !.z = startZ(iterIn.c, iterIn.options)]
  /\ UNCHANGED iterIn
  /\ UNCHANGED <<zoomVars, uiVars, arithVars, stateVars, renderVars, shaderVars, colorVars,
                 animVars, loopVars>>

\* one pass of the loop of mandelbrotIteration, or the return after it
MandelbrotPass ==
  /\ iterOut.fn = "mandelbrotIteration"
  /\ ~iterOut.done
  /\ \E z1 \in {mandelbrotPass(iterOut.z, constantOf(iterIn.c, iterIn.options),
                               iterIn.power, iterIn.options.burningShip)} :
       iterOut' =
         IF iterOut.i >= iterIn.maxIter
         THEN [iterOut EXCEPT !.done = TRUE, !.ret = iterIn.maxIter]
         ELSE IF exceeds(z1, EscapeRadiusSq)
         THEN [iterOut EXCEPT !.z = z1, !.done = TRUE, !.ret = iterOut.i]
         ELSE [iterOut EXCEPT !.z = z1, !.i = iterOut.i + 1]
  /\ UNCHANGED iterIn
  /\ UNCHANGED <<zoomVars, uiVars, arithVars, stateVars, renderVars, shaderVars, colorVars,
                 animVars, loopVars>>

\* smoothIteration(c, maxIter, power) up to its loop
CallSmoothIteration ==
  /\ iterOut.fn = "none"
  /\ iterOut' = [NoResult EXCEPT !.fn = "smoothIteration"]
  /\ UNCHANGED iterIn
  /\ UNCHANGED <<zoomVars, uiVars, arithVars, stateVars, renderVars, shaderVars, colorVars,
                 animVars, loopVars>>

\* one pass of the loop of smoothIteration, or the return after it
SmoothPass ==
  /\ iterOut.fn = "smoothIteration"
  /\ ~iterOut.done
  /\ \E z1 \in {mandelbrotPass(iterOut.z, iterIn.c, iterIn.power, FALSE)} :
       iterOut' =
         IF iterOut.i >= iterIn.maxIter
         THEN [iterOut EXCEPT !.done = TRUE, !.ret = iterIn.maxIter]
         ELSE IF exceeds(z1, SmoothRadiusSq)
         THEN [iterOut EXCEPT !.z = z1, !.done = TRUE, !.ret = iterOut.i + 1,
                 !.magSq = magnitudeSquared(z1)]
         ELSE [iterOut EXCEPT !.z = z1, !.i = iterOut.i + 1]
  /\ UNCHANGED iterIn
  /\ UNCHANGED <<zoomVars, uiVars, arithVars, stateVars, renderVars, shaderVars, colorVars,
                 animVars, loopVars>>

IterNext ==
  \/ CallMandelbrotIteration
  \/ MandelbrotPass
  \/ CallSmoothIteration
  \/ SmoothPass

\* ------------------------------------------------------------------------
\* getColor of the fragment shader, as a function
\*   iterations, maxIterations, base and scheme are in halves; offset is
\*   whole; distance, orbitTrap, interiorValue and u_zoom are floats, in units
\* ------------------------------------------------------------------------
\* clamp(x, lo, hi)
clamp(x, lo, hi) == Min2(Max2(x, lo), hi)

\* float distMod = 1.0 - clamp(distance * u_zoom * 0.5, 0.0, 1.0)
distMod(distance, zoom) ==
  FSub(Unit, clamp(FMul(FMul(distance, zoom), Unit \div 2), 0, Unit))

\* float trapMod = clamp(orbitTrap * 2.0, 0.0, 1.0)
trapMod(orbitTrap) == clamp(FMul(orbitTrap, 2 * Unit), 0, Unit)

usesDistModAlways(schemeInt) == TRUE

\* the branch of the scheme chain whose colour is computed from distMod
usesDistMod(schemeInt) == schemeInt = 18

\* the colour of getColor(in...) while u_zoom holds zoom: the branch that
\* produces it, with the distMod (glow) and trapMod (trap) terms where the
\* branch computes the colour from them; -1 where it does not
colourOf(in, zoom) ==
  LET col == getColor(in.iterations < in.maxIterations - 1, in.scheme,
                      in.interiorValue > (Unit \div 100))
  IN  [interior |-> col.interior, black |-> col.black, scheme |-> col.scheme,
       glow |-> IF ~col.interior /\ usesDistMod(col.scheme)
                THEN distMod(in.distance, zoom) ELSE -1,
       trap |-> IF col.scheme = 19 THEN trapMod(in.orbitTrap) ELSE -1]

\* --- inputs of getColor ---
\* u_zoom 0.5, 1, 2 and 8
ZoomValues == {Unit \div 2, Unit, 2 * Unit, 8 * Unit}

ColorInputs ==
  [iterations : {2 * 5, 2 * 12}, maxIterations : {2 * 12}, base : {2 * 10},
   scheme : {0, 2 * 3, 2 * 18, 2 * 19}, offset : {0, 50},
   distance : {0, Unit \div 8, Unit \div 2}, orbitTrap : {0, Unit \div 4},
   interiorValue : {0, Unit \div 2}, zoom : ZoomValues]

NoColour == [interior |-> FALSE, black |-> FALSE, scheme |-> -1, glow |-> -1,
             trap |-> -1]

ColorIdle ==
  /\ colorIn = [iterations |-> 0, maxIterations |-> 0, base |-> 0, scheme |-> 0,
                offset |-> 0, distance |-> 0, orbitTrap |-> 0,
                interiorValue |-> 0, zoom |-> Unit]
  /\ colorOut = [done |-> FALSE, colour |-> NoColour]

ColorInit ==
  /\ colorIn \in ColorInputs
  /\ colorOut = [done |-> FALSE, colour |-> NoColour]

\* getColor(iterations, ..., interiorValue) with u_zoom = colorIn.zoom
ApplyGetColor ==
  /\ ~colorOut.done
  /\ colorOut' = [done |-> TRUE, colour |-> colourOf(colorIn, colorIn.zoom)]
  /\ UNCHANGED colorIn
  /\ UNCHANGED <<zoomVars, uiVars, arithVars, stateVars, renderVars, shaderVars, iterVars,
                 animVars, loopVars>>

\* the uniform u_zoom is uploaded anew between two calls
SetZoom ==
  \E zoom \in ZoomValues :
    /\ zoom # colorIn.zoom
    /\ colorOut.done
    /\ colorIn' = [colorIn EXCEPT !.zoom = zoom]
    /\ colorOut' = [done |-> FALSE, colour |-> colorOut.colour]
    /\ UNCHANGED <<zoomVars, uiVars, arithVars, stateVars, renderVars, shaderVars, iterVars,
                 animVars, loopVars>>

ColorNext ==
  \/ ApplyGetColor
  \/ SetZoom

\* ------------------------------------------------------------------------
\* AnimationController
\*   an interval timer is its handle, a positive integer, as setInterval
\*   returns it; the timer's record holds the animation type whose callback
\*   it runs and the closure variable of that callback (direction or
\*   baseIndex; 0 for a callback without one)
\* ------------------------------------------------------------------------
MaxTimers == 2
MaxTicks == 1

\* ANIMATION_TYPES
AnimationTypes == {"zoom", "rotate", "morph", "base", "tour", "julia"}

\* the arguments of start, stop and toggle
TypeArgs == AnimationTypes \cup {"unknown"}

NUMBER_BASES == <<2, 3, 4, 5, 6, 8, 10, 12, 16, 32, 60>>

\* 1000 * log10 of one step of the zoom animation (a factor 1.02 or 0.98),
\* and of its limits 10000 and 0.5
ZoomTick == 9
ZoomTurnDown == 4000
ZoomTurnUp == -301

\* one step of the power morph (0.05) and its limits 8 and 2, in thousandths
PowerTick == 50
PowerTurnDown == 8000
PowerTurnUp == 2000

NoAnimCall == [op |-> "none", type |-> "", ret |-> "undefined", sent |-> 0]

\* NUMBER_BASES.indexOf(numberBase), 0-based; -1 when absent
indexOfBase(numberBase) ==
  IF \E i \in 1..Len(NUMBER_BASES) : 2 * NUMBER_BASES[i] = numberBase
  THEN (CHOOSE i \in 1..Len(NUMBER_BASES) : 2 * NUMBER_BASES[i] = numberBase) - 1
  ELSE -1

\* the closure variable a _create...Animation starts with
closureOf(type) ==
  CASE type \in {"zoom", "morph"} -> 1
    [] type = "base" -> Max2(0, indexOfBase(state.numberBase))
    [] OTHER -> 0

\* this._animations.has(type) that finds nothing
hasNever(anims, type) == FALSE

\* this._animations.has(type)
has(anims, type) == type \in DOMAIN anims

\* clearInterval(intervalId) that clears nothing
clearIntervalSkipped(ts, intervalId) == ts

\* the live timers after clearInterval(intervalId)
clearInterval(ts, intervalId) == [h \in (DOMAIN ts) \ {intervalId} |-> ts[h]]

\* the controller c = [animations, timers, timerNext, sent, ret] after
\* _notifyListeners(): every listener is called once
animNotify(c) == [c EXCEPT !.sent = @ + Cardinality(animListeners)]

\* start(type) on the controller c
start(c, type) ==
  IF has(c.animations, type) THEN [c EXCEPT !.ret = "false"]
  ELSE IF type \notin AnimationTypes THEN [c EXCEPT !.ret = "false"]
  ELSE animNotify(
         [c EXCEPT
            !.timers = Spread(@, [h \in {c.timerNext} |->
                                    [type |-> type, local |-> closureOf(type)]]),
            !.timerNext = @ + 1,
            !.animations = Spread(@, [t \in {type} |-> c.timerNext]),
            !.ret = "true"])

\* stop(type) on the controller c
stop(c, type) ==
  IF ~has(c.animations, type) THEN [c EXCEPT !.ret = "false"]
  ELSE animNotify(
         [c EXCEPT
            !.timers = IF c.animations[type] # 0
                       THEN clearInterval(@, c.animations[type]) ELSE @,
            !.animations = [t \in (DOMAIN @) \ {type} |-> @[t]],
            !.ret = "true"])

\* stop applied to each of the types, as stopAll() does over the Map's keys
RECURSIVE stopEach(_, _)
stopEach(c, types) ==
  IF types = {} THEN [c EXCEPT !.ret = "undefined"]
  ELSE LET t == CHOOSE u \in types : TRUE
       IN  stopEach(stop(c, t), types \ {t})

\* stopAll() on the controller c
stopAll(c) == stopEach(c, DOMAIN c.animations)

\* isRunning(type)
isRunning(c, type) == has(c.animations, type)

\* toggle(type) on the controller c
toggle(c, type) ==
  IF isRunning(c, type)
  THEN [stop(c, type) EXCEPT !.ret = "false"]
  ELSE [start(c, type) EXCEPT !.ret = "true"]

Controller ==
  [animations |-> animations, timers |-> timers, timerNext |-> timerNext,
   sent |-> 0, ret |-> "undefined"]

SetController(c, op, type) ==
  /\ animations' = c.animations
  /\ timers' = c.timers
  /\ timerNext' = c.timerNext
  /\ animCall' = [op |-> op, type |-> type, ret |-> c.ret, sent |-> c.sent]

AnimInit ==
  /\ animations = <<>>
  /\ timers = <<>>
  /\ timerNext = 1
  /\ animListeners = {}
  /\ animCall = NoAnimCall
  /\ nTicks = 0

\* what _create...Animation does to the store before it sets the timer:
\* the Julia morph switches juliaMode on
FactoryUpdate(c, type) ==
  IF type = "julia" /\ c.timerNext # timerNext
  THEN /\ lastOp' = [op |-> "update", arg |-> [juliaMode |-> TRUE]]
       /\ DoUpdate([juliaMode |-> TRUE], FALSE, FALSE)
       /\ ret' = "state"
       /\ UNCHANGED nOps
  ELSE UNCHANGED stateVars

\* start(type)
Start ==
  \E type \in TypeArgs :
    /\ \E c \in {start(Controller, type)} :
         /\ c.timerNext <= MaxTimers + 1
         /\ SetController(c, "start", type)
         /\ FactoryUpdate(c, type)
    /\ UNCHANGED <<animListeners, nTicks>>
    /\ UNCHANGED <<zoomVars, uiVars, arithVars, renderVars, shaderVars, iterVars, colorVars, loopVars>>

\* stop(type), of a running type, of the zoom or of an unknown type
Stop ==
  \E type \in (DOMAIN animations) \cup {"zoom", "unknown"} :
    /\ SetController(stop(Controller, type), "stop", type)
    /\ UNCHANGED <<animListeners, nTicks>>
    /\ UNCHANGED <<zoomVars, uiVars, arithVars, stateVars, renderVars, shaderVars, iterVars,
                   colorVars, loopVars>>

\* stopAll()
StopAll ==
  /\ SetController(stopAll(Controller), "stopAll", "")
  /\ UNCHANGED <<animListeners, nTicks>>
  /\ UNCHANGED <<zoomVars, uiVars, arithVars, stateVars, renderVars, shaderVars, iterVars,
                 colorVars, loopVars>>

\* toggle(type)
Toggle ==
  \E type \in TypeArgs :
    /\ \E c \in {toggle(Controller, type)} :
         /\ c.timerNext <= MaxTimers + 1
         /\ SetController(c, "toggle", type)
         /\ FactoryUpdate(c, type)
    /\ UNCHANGED <<animListeners, nTicks>>
    /\ UNCHANGED <<zoomVars, uiVars, arithVars, renderVars, shaderVars, iterVars, colorVars, loopVars>>

\* dispose(): stopAll(), then the listeners are cleared
AnimDispose ==
  /\ SetController(stopAll(Controller), "dispose", "")
  /\ animListeners' = {}
  /\ UNCHANGED nTicks
  /\ UNCHANGED <<zoomVars, uiVars, arithVars, stateVars, renderVars, shaderVars, iterVars,
                 colorVars, loopVars>>

\* subscribe(listener) by the control panel
AnimSubscribe ==
  /\ animListeners' = animListeners \cup {"panel"}
  /\ animCall' = [NoAnimCall EXCEPT !.op = "subscribe", !.ret = "unsubscribe"]
  /\ UNCHANGED <<animations, timers, timerNext, nTicks>>
  /\ UNCHANGED <<zoomVars, uiVars, arithVars, stateVars, renderVars, shaderVars, iterVars,
                 colorVars, loopVars>>

\* the offsets, centres, zooms and Julia constants the callbacks of the colour
\* cycle, the tour and the Julia morph write: functions of the speed, of the
\* clock and of the angle, any of the modelled values
TickOffsets == {3, 50}

TickJulia == {<<(3 * Unit) \div 4, 0>>, <<0, (3 * Unit) \div 4>>}

\* the changes the interval callback of timer h passes to update; none when
\* the tour moves on to its next stop
TickChanges(h) ==
  CASE timers[h].type = "zoom" ->
         {[zoom |-> state.zoom + ZoomTick * timers[h].local]}
    [] timers[h].type = "rotate" -> {[colorOffset |-> o] : o \in TickOffsets}
    [] timers[h].type = "morph" ->
         {[power |-> state.power + PowerTick * timers[h].local]}
    [] timers[h].type = "base" ->
         {[numberBase |->
             2 * NUMBER_BASES[((timers[h].local + 1) % Len(NUMBER_BASES)) + 1]]}
    [] timers[h].type = "tour" ->
         {<<>>, [centerX |-> 0, centerY |-> 0, zoom |-> 301]}
    [] OTHER -> {[juliaC |-> j] : j \in TickJulia}

\* the closure variable of timer h after its callback has run on changes
TickLocal(h, changes) ==
  CASE timers[h].type = "zoom" ->
         IF changes.zoom < ZoomTurnUp THEN 1
         ELSE IF changes.zoom > ZoomTurnDown THEN -1 ELSE timers[h].local
    [] timers[h].type = "morph" ->
         IF changes.power < PowerTurnUp THEN 1
         ELSE IF changes.power > PowerTurnDown THEN -1 ELSE timers[h].local
    [] timers[h].type = "base" -> (timers[h].local + 1) % Len(NUMBER_BASES)
    [] OTHER -> timers[h].local

\* the callback of the live interval timer h runs, as one of at most bound
TickOf(h, bound) ==
  /\ nTicks < bound
  /\ nTicks' = nTicks + 1
  /\ \E changes \in TickChanges(h) :
       /\ timers' = [timers EXCEPT ![h].local = TickLocal(h, changes)]
       /\ animCall' = [NoAnimCall EXCEPT !.op = "tick", !.type = timers[h].type]
       /\ IF changes = <<>>
          THEN UNCHANGED stateVars
          ELSE /\ lastOp' = [op |-> "update", arg |-> changes]
               /\ DoUpdate(changes, FALSE, FALSE)
               /\ ret' = "state"
               /\ UNCHANGED nOps
  /\ UNCHANGED <<animations, timerNext, animListeners>>
  /\ UNCHANGED <<zoomVars, uiVars, arithVars, renderVars, shaderVars, iterVars, colorVars, loopVars>>

\* the callback of a live interval timer runs
Tick == \E h \in DOMAIN timers : TickOf(h, MaxTicks)

AnimNext ==
  \/ Start
  \/ Stop
  \/ StopAll
  \/ Toggle
  \/ AnimDispose
  \/ AnimSubscribe
  \/ Tick

\* ------------------------------------------------------------------------
\* The render loop of the WebGLRenderer
\*   a requestAnimationFrame handle is a positive integer
\* ------------------------------------------------------------------------
MaxCalls == 4
MaxFrames == 2

NoFrame == [id |-> 0, at |-> "idle"]

\* the context creates every object asked for and links the program
GlWorks ==
  [vertexShader |-> TRUE, fragmentShader |-> TRUE, program |-> TRUE,
   link |-> TRUE]

\* initialize() on the renderer r and the shader manager m
initialize(r, m) ==
  IF r.isInitialized THEN [r |-> r, m |-> m]
  ELSE LET c == createProgram("valid", "valid", "mandelbrot", GlWorks, m)
       IN  [r |-> [isInitialized |-> TRUE, program |-> c.ret,
                   vertexBuffer |-> c.m.next],
            m |-> [c.m EXCEPT !.live = @ \cup {c.m.next}, !.next = @ + 1]]

\* ShaderManager.dispose() on the manager m
managerDispose(m) ==
  [deleteAll({m.programs[n] : n \in DOMAIN m.programs}, m)
     EXCEPT !.programs = <<>>, !.shaders = {}]

\* isRunning()
loopIsRunning == animationFrameId # 0

\* the effect of stopRenderLoop(): cancelAnimationFrame of the stored handle
DoStopRenderLoop ==
  IF animationFrameId # 0
  THEN /\ rafPending' = rafPending \ {animationFrameId}
       /\ animationFrameId' = 0
  ELSE UNCHANGED <<rafPending, animationFrameId>>

LoopInit ==
  /\ animationFrameId = 0
  /\ rafPending = {}
  /\ rafNext = 1
  /\ frame = NoFrame
  /\ renderer = [isInitialized |-> FALSE, program |-> 0, vertexBuffer |-> 0]
  /\ loopCall = [op |-> "new", from |-> "idle", n |-> 0]
  /\ nFrames = 0

\* a call of the renderer, made from the onFrame callback when a frame is
\* executing and by the application otherwise
LoopCalled(op) ==
  /\ loopCall.n < MaxCalls
  /\ loopCall' = [op |-> op, from |-> frame.at, n |-> loopCall.n + 1]

\* startRenderLoop(state, onFrame)
StartRenderLoop ==
  /\ LoopCalled("start")
  /\ IF animationFrameId # 0
     THEN UNCHANGED <<animationFrameId, rafPending, rafNext>>
     ELSE /\ animationFrameId' = rafNext
          /\ rafPending' = rafPending \cup {rafNext}
          /\ rafNext' = rafNext + 1
  /\ UNCHANGED <<frame, renderer, nFrames>>
  /\ UNCHANGED <<zoomVars, uiVars, arithVars, stateVars, renderVars, shaderVars, iterVars,
                 colorVars, animVars>>

\* stopRenderLoop()
StopRenderLoop ==
  /\ LoopCalled("stop")
  /\ DoStopRenderLoop
  /\ UNCHANGED <<rafNext, frame, renderer, nFrames>>
  /\ UNCHANGED <<zoomVars, uiVars, arithVars, stateVars, renderVars, shaderVars, iterVars,
                 colorVars, animVars>>

\* dispose(): the loop is stopped, the vertex buffer deleted, the shader
\* manager disposed
RendererDispose ==
  /\ LoopCalled("dispose")
  /\ DoStopRenderLoop
  /\ renderer' = [renderer EXCEPT !.isInitialized = FALSE, !.vertexBuffer = 0]
  /\ SetManager(managerDispose([Manager EXCEPT !.live = @ \ {renderer.vertexBuffer}]))
  /\ UNCHANGED call
  /\ UNCHANGED <<rafNext, frame, nFrames>>
  /\ UNCHANGED <<zoomVars, uiVars, arithVars, stateVars, renderVars, iterVars, colorVars, animVars>>

\* the browser runs a pending renderFrame callback, which calls onFrame
FrameBegin ==
  \E h \in rafPending :
    /\ frame.at = "idle"
    /\ nFrames < MaxFrames
    /\ rafPending' = rafPending \ {h}
    /\ frame' = [id |-> h, at |-> "onFrame"]
    /\ UNCHANGED <<animationFrameId, rafNext, renderer, loopCall, nFrames>>
    /\ UNCHANGED <<zoomVars, uiVars, arithVars, stateVars, renderVars, shaderVars, iterVars,
                   colorVars, animVars>>

\* the rest of renderFrame: render(state.getState()), then the next frame is
\* requested and its handle stored
FrameRender ==
  /\ frame.at = "onFrame"
  /\ \E i \in {initialize(renderer, Manager)} :
       renderer' = i.r /\ SetManager(i.m)
  /\ uniforms' = updateUniforms(state)
  /\ animationFrameId' = rafNext
  /\ rafPending' = rafPending \cup {rafNext}
  /\ rafNext' = rafNext + 1
  /\ frame' = NoFrame
  /\ nFrames' = nFrames + 1
  /\ UNCHANGED <<loopCall, call, snap, split, pc, px, frag>>
  /\ UNCHANGED <<zoomVars, uiVars, arithVars, stateVars, iterVars, colorVars, animVars>>

LoopNext ==
  \/ StartRenderLoop
  \/ StopRenderLoop
  \/ RendererDispose
  \/ FrameBegin
  \/ FrameRender

\* ------------------------------------------------------------------------
\* InteractionManager
\*   pointer positions are client pixels; the canvas rectangle is the canvas
\*   itself (left 0, top 0, the canvas size), so _getEventCoords returns the
\*   client position; a factor is a fraction <<numerator, denominator>>
\* ------------------------------------------------------------------------
MaxEvents == 4

\* the distance in pixels beyond which a click counts as the end of a drag,
\* and the distance below which a short touch counts as a tap
ClickSlop == 5
TapSlop == 10

MouseEvents == {"mousedown", "mousemove", "mouseup", "mouseleave", "wheel", "click"}

TouchEvents == {"touchstart", "touchmove", "touchend"}

\* the default options of the constructor; zoomFactor 2 and wheelZoomFactor
\* 1.1 as fractions
DefaultOptions ==
  [zoomFactor |-> <<2, 1>>, wheelZoomFactor |-> <<11, 10>>, enablePan |-> TRUE,
   enableZoom |-> TRUE, enableClick |-> TRUE, enableTouch |-> TRUE]

\* the arguments of the constructor and of setOptions
OptionArgs ==
  { <<>>, [enablePan |-> FALSE], [enablePan |-> TRUE], [enableTouch |-> FALSE],
    [enableTouch |-> TRUE], [enableClick |-> FALSE], [enableZoom |-> FALSE],
    [zoomFactor |-> <<4, 1>>] }

\* the positions of the pointer or of a single touch, and the distances
\* between the two touches of a pinch (the touches lie at (0, 0) and (d, 0))
Positions == {<<0, 0>>, <<3, 4>>, <<100, 0>>}

Spreads == {10, 20}

\* an event with its position and Shift key, and the call its handler made
NoUiCall ==
  [event |-> "none", at |-> <<0, 0>>, shiftKey |-> FALSE, method |-> "none",
   x |-> 0, y |-> 0, factor |-> <<1, 1>>]

\* dx * dx + dy * dy between two positions
distSq(ax, ay, bx, by) == (ax - bx) * (ax - bx) + (ay - by) * (ay - by)

\* 1 / factor
inverse(factor) == <<factor[2], factor[1]>>

\* 1000 * log10 of the factors that occur
logMilli(factor) ==
  CASE factor[1] = factor[2] -> 0
    [] factor[1] = 2 * factor[2] -> 301
    [] factor[2] = 2 * factor[1] -> -301
    [] factor[1] = 4 * factor[2] -> 602
    [] factor[2] = 4 * factor[1] -> -602
    [] 10 * factor[1] = 11 * factor[2] -> 41
    [] OTHER -> -41

\* the changes pan(dx, dy) passes to update: the centre moves by the pixel
\* scale 4 / (zoom * min(width, height)) per pixel, counted as one unit
panChanges(st, dx, dy) ==
  [centerX |-> st.centerX - dx, centerY |-> st.centerY + dy]

\* the changes zoomAt(px, py, factor) passes to update: the centre moves by
\* t = 1 - 1/factor towards the point, which lies (px - width/2) and
\* (py - height/2) pixel scales from the centre
zoomAtChanges(st, x, y, factor) ==
  [centerX |-> st.centerX
                 + RoundDiv((x - (st.width \div 2)) * (factor[1] - factor[2]), factor[1]),
   centerY |-> st.centerY
                 - RoundDiv((y - (st.height \div 2)) * (factor[1] - factor[2]), factor[1]),
   zoom |-> st.zoom + logMilli(factor)]

\* the handler of an event made the call c on the store, or none
StoreCall(c) ==
  /\ uiCall' = c
  /\ UNCHANGED <<lastOp, nOps, ret>>
  /\ CASE c.method = "pan" -> DoUpdate(panChanges(state, c.x, c.y), FALSE, FALSE)
       [] c.method = "zoomAt" ->
            DoUpdate(zoomAtChanges(state, c.x, c.y, c.factor), FALSE, FALSE)
       [] OTHER ->
            UNCHANGED <<state, history, historyIndex, opts, notified, pending,
                        dropped, listeners, invoked, subs, changedKeys>>

\* an event of this type reaches a handler of the manager
Dispatched(type) ==
  /\ type \in canvasListeners
  /\ nEvents < MaxEvents
  /\ nEvents' = nEvents + 1

UiFrame ==
  UNCHANGED <<arithVars, renderVars, shaderVars, iterVars, colorVars, animVars,
              loopVars, zoomVars>>

\* the events _attachListeners adds a listener for
attached(o) == MouseEvents \cup (IF o.enableTouch THEN TouchEvents ELSE {})

\* the events _detachListeners removes the listener of: removeEventListener
\* with a handler that is undefined removes nothing
detached(o, handlers) == attached(o) \cap handlers

\* new InteractionManager(canvas, state, options)
NewManager ==
  [isDragging |-> FALSE, lastMouseX |-> 0, lastMouseY |-> 0,
   dragStartX |-> 0, dragStartY |-> 0, lastTouchDistance |-> 0]

UiInit ==
  /\ imOptions = DefaultOptions
  /\ boundHandlers = attached(DefaultOptions)
  /\ canvasListeners = attached(DefaultOptions)
  /\ im = NewManager
  /\ uiCall = NoUiCall
  /\ press = <<>>
  /\ disposed = FALSE
  /\ nEvents = 0

\* new InteractionManager(canvas, state, options) on a canvas of its own, in
\* place of the manager with the default options
UiConstruct ==
  \E o \in {[enableTouch |-> FALSE], [enablePan |-> FALSE]} :
    /\ nEvents = 0
    /\ imOptions = DefaultOptions
    /\ imOptions' = Spread(DefaultOptions, o)
    /\ boundHandlers' = attached(Spread(DefaultOptions, o))
    /\ canvasListeners' = attached(Spread(DefaultOptions, o))
    /\ im' = NewManager
    /\ uiCall' = [NoUiCall EXCEPT !.event = "new"]
    /\ UNCHANGED <<press, disposed, nEvents, stateVars>>
    /\ UiFrame

\* _onMouseDown
MouseDown ==
  \E p \in Positions :
    /\ Dispatched("mousedown")
    /\ press' = p
    /\ im' = IF ~imOptions.enablePan THEN im
             ELSE [im EXCEPT !.isDragging = TRUE,
                             !.lastMouseX = p[1], !.lastMouseY = p[2],
                             !.dragStartX = p[1], !.dragStartY = p[2]]
    /\ StoreCall([NoUiCall EXCEPT !.event = "mousedown", !.at = p])
    /\ UNCHANGED <<imOptions, boundHandlers, canvasListeners, disposed>>
    /\ UiFrame

\* _onMouseMove
MouseMove ==
  \E p \in Positions :
    /\ Dispatched("mousemove")
    /\ IF ~im.isDragging
       THEN /\ UNCHANGED im
            /\ StoreCall([NoUiCall EXCEPT !.event = "mousemove", !.at = p])
       ELSE /\ im' = [im EXCEPT !.lastMouseX = p[1], !.lastMouseY = p[2]]
            /\ StoreCall([NoUiCall EXCEPT !.event = "mousemove", !.at = p,
                                          !.method = "pan",
                                          !.x = p[1] - im.lastMouseX,
                                          !.y = p[2] - im.lastMouseY])
    /\ UNCHANGED <<imOptions, boundHandlers, canvasListeners, press, disposed>>
    /\ UiFrame

\* _onMouseUp
MouseUp ==
  /\ Dispatched("mouseup")
  /\ im' = [im EXCEPT !.isDragging = FALSE]
  /\ StoreCall([NoUiCall EXCEPT !.event = "mouseup"])
  /\ UNCHANGED <<imOptions, boundHandlers, canvasListeners, press, disposed>>
  /\ UiFrame

\* _onMouseLeave
MouseLeave ==
  /\ Dispatched("mouseleave")
  /\ im' = [im EXCEPT !.isDragging = FALSE]
  /\ StoreCall([NoUiCall EXCEPT !.event = "mouseleave"])
  /\ UNCHANGED <<imOptions, boundHandlers, canvasListeners, press, disposed>>
  /\ UiFrame

\* _onWheel with deltaY > 0 (down) or not
Wheel ==
  \E p \in Positions, down \in BOOLEAN :
    /\ Dispatched("wheel")
    /\ IF ~imOptions.enableZoom
       THEN StoreCall([NoUiCall EXCEPT !.event = "wheel", !.at = p])
       ELSE StoreCall([NoUiCall EXCEPT
                         !.event = "wheel", !.at = p, !.method = "zoomAt",
                         !.x = p[1], !.y = p[2],
                         !.factor = IF down THEN inverse(imOptions.wheelZoomFactor)
                                    ELSE imOptions.wheelZoomFactor])
    /\ UNCHANGED <<imOptions, im, boundHandlers, canvasListeners, press, disposed>>
    /\ UiFrame

\* whether _onClick ignores a click at p as the end of a drag
clickIgnored(m, p) ==
  distSq(p[1], p[2], m.dragStartX, m.dragStartY) > ClickSlop * ClickSlop

\* _onClick
Click ==
  \E p \in Positions, shiftKey \in BOOLEAN :
    /\ Dispatched("click")
    /\ IF ~imOptions.enableClick \/ clickIgnored(im, p)
       THEN StoreCall([NoUiCall EXCEPT !.event = "click", !.at = p,
                                       !.shiftKey = shiftKey])
       ELSE StoreCall([NoUiCall EXCEPT
                         !.event = "click", !.at = p, !.shiftKey = shiftKey,
                         !.method = "zoomAt", !.x = p[1], !.y = p[2],
                         !.factor = IF shiftKey THEN inverse(imOptions.zoomFactor)
                                    ELSE imOptions.zoomFactor])
    /\ UNCHANGED <<imOptions, im, boundHandlers, canvasListeners, press, disposed>>
    /\ UiFrame

\* _onTouchStart with one touch
TouchStartOne ==
  \E p \in Positions :
    /\ Dispatched("touchstart")
    /\ im' = [im EXCEPT !.isDragging = TRUE,
                        !.lastMouseX = p[1], !.lastMouseY = p[2],
                        !.dragStartX = p[1], !.dragStartY = p[2]]
    /\ StoreCall([NoUiCall EXCEPT !.event = "touchstart", !.at = p])
    /\ UNCHANGED <<imOptions, boundHandlers, canvasListeners, press, disposed>>
    /\ UiFrame

\* _onTouchStart with two touches
TouchStartTwo ==
  \E d \in Spreads :
    /\ Dispatched("touchstart")
    /\ im' = [im EXCEPT !.isDragging = FALSE, !.lastTouchDistance = d]
    /\ StoreCall([NoUiCall EXCEPT !.event = "touchstart"])
    /\ UNCHANGED <<imOptions, boundHandlers, canvasListeners, press, disposed>>
    /\ UiFrame

\* _onTouchMove with one touch
TouchMoveOne ==
  \E p \in Positions :
    /\ Dispatched("touchmove")
    /\ IF ~im.isDragging
       THEN /\ UNCHANGED im
            /\ StoreCall([NoUiCall EXCEPT !.event = "touchmove", !.at = p])
       ELSE /\ im' = [im EXCEPT !.lastMouseX = p[1], !.lastMouseY = p[2]]
            /\ StoreCall([NoUiCall EXCEPT !.event = "touchmove", !.at = p,
                                          !.method = "pan",
                                          !.x = p[1] - im.lastMouseX,
                                          !.y = p[2] - im.lastMouseY])
    /\ UNCHANGED <<imOptions, boundHandlers, canvasListeners, press, disposed>>
    /\ UiFrame

\* _onTouchMove with two touches: the pinch zooms at the centre of the touches
TouchMoveTwo ==
  \E d \in Spreads :
    /\ Dispatched("touchmove")
    /\ im' = [im EXCEPT !.lastTouchDistance = d]
    /\ IF im.lastTouchDistance > 0
       THEN StoreCall([NoUiCall EXCEPT
                         !.event = "touchmove", !.method = "zoomAt",
                         !.x = d \div 2, !.y = 0,
                         !.factor = <<d, im.lastTouchDistance>>])
       ELSE StoreCall([NoUiCall EXCEPT !.event = "touchmove"])
    /\ UNCHANGED <<imOptions, boundHandlers, canvasListeners, press, disposed>>
    /\ UiFrame

\* _onTouchEnd; quick: the touch lasted less than 200 ms
TouchEnd ==
  \E quick \in BOOLEAN :
    /\ Dispatched("touchend")
    /\ im' = [im EXCEPT !.isDragging = FALSE, !.lastTouchDistance = 0]
    /\ IF /\ im.isDragging
          /\ quick
          /\ distSq(im.lastMouseX, im.lastMouseY, im.dragStartX, im.dragStartY)
               < TapSlop * TapSlop
       THEN StoreCall([NoUiCall EXCEPT
                         !.event = "touchend", !.method = "zoomAt",
                         !.x = im.dragStartX, !.y = im.dragStartY,
                         !.factor = imOptions.zoomFactor])
       ELSE StoreCall([NoUiCall EXCEPT !.event = "touchend"])
    /\ UNCHANGED <<imOptions, boundHandlers, canvasListeners, press, disposed>>
    /\ UiFrame

\* a call on the manager, not an event
UiCalled(op) ==
  /\ nEvents < MaxEvents
  /\ nEvents' = nEvents + 1
  /\ uiCall' = [NoUiCall EXCEPT !.event = op]
  /\ UNCHANGED stateVars

\* setOptions(options)
SetOptions ==
  \E o \in OptionArgs \ {<<>>} :
    /\ UiCalled("setOptions")
    /\ imOptions' = Spread(imOptions, o)
    /\ UNCHANGED <<im, boundHandlers, canvasListeners, press, disposed>>
    /\ UiFrame

\* dispose(): _detachListeners(), then _boundHandlers = {}
UiDispose ==
  /\ UiCalled("dispose")
  /\ canvasListeners' = canvasListeners \ detached(imOptions, boundHandlers)
  /\ boundHandlers' = {}
  /\ disposed' = TRUE
  /\ UNCHANGED <<imOptions, im, press>>
  /\ UiFrame

UiNext ==
  \/ UiConstruct
  \/ MouseDown
  \/ MouseMove
  \/ MouseUp
  \/ MouseLeave
  \/ Wheel
  \/ Click
  \/ TouchStartOne
  \/ TouchStartTwo
  \/ TouchMoveOne
  \/ TouchMoveTwo
  \/ TouchEnd
  \/ SetOptions
  \/ UiDispose

\* ------------------------------------------------------------------------
\* The power morph alone: the power is set, the animation is started and its
\* interval callback runs
\* ------------------------------------------------------------------------
MaxMorphTicks == 130

\* powers within [2, 8], in thousandths
MorphPowers == {2000, 4975, 7900, 8000}

\* state.update({ power }) before the animation is started
MorphSetPower ==
  \E p \in MorphPowers :
    /\ animations = <<>>
    /\ nTicks = 0
    /\ state.power = DEFAULT_STATE.power
    /\ lastOp' = [op |-> "update", arg |-> [power |-> p]]
    /\ DoUpdate([power |-> p], FALSE, FALSE)
    /\ ret' = "state"
    /\ UNCHANGED nOps
    /\ UNCHANGED animVars
    /\ UNCHANGED <<zoomVars, uiVars, arithVars, renderVars, shaderVars, iterVars, colorVars, loopVars>>

\* start('morph')
MorphStart ==
  /\ SetController(start(Controller, "morph"), "start", "morph")
  /\ UNCHANGED <<animListeners, nTicks>>
  /\ UNCHANGED <<zoomVars, uiVars, arithVars, stateVars, renderVars, shaderVars, iterVars,
                 colorVars, loopVars>>

\* the interval callback of the power morph runs
MorphTick ==
  \E h \in DOMAIN timers : timers[h].type = "morph" /\ TickOf(h, MaxMorphTicks)

MorphNext ==
  \/ MorphSetPower
  \/ MorphStart
  \/ MorphTick

\* ------------------------------------------------------------------------
\* The zoom animation of the double-double version of the AnimationController
\*   ZOOM_TARGETS in the units of the store: x and y in units, maxZoom as
\*   1000 * log10
\* ------------------------------------------------------------------------
ZOOM_TARGETS_x ==
  <<-190, -191, -53, -60, -26, -322, -41, 70, -191, -359, -12, -192, -453, -195,
    -190, -41>>

ZOOM_TARGETS_y ==
  <<34, 29, 287, 212, 245, 97, 264, 2, 29, 0, 253, 8, 0, -22, 34, 266>>

ZOOM_TARGETS_maxZoom ==
  <<10000, 9000, 8000, 9000, 10000, 8000, 8000, 9000, 11000, 9000, 8000, 8000,
    9000, 9000, 12000, 10000>>

NumTargets == Len(ZOOM_TARGETS_maxZoom)

\* the limits of setSpeed and the speed of the constructor
SpeedMin == 1
SpeedMax == 10
SpeedDefault == 5

\* the arguments of setSpeed
SpeedArgs == 0..11

\* 1000 * log10 of the zoom 2 an approach starts at, the iteration count 300
\* written with it, and baseIterations and the cap of scaledIterations
ZoomStartLog == 301
StartIterations == 300
BaseIterations == 256
ScaledIterationsCap == 2000

\* 1000 * log10(1 + 0.02 * direction * speed) for direction 1
zoomFactorLog ==
  <<9, 17, 25, 33, 41, 49, 57, 64, 72, 79>>

\* Math.min(2000, Math.floor(256 + Math.log10(Math.max(1, newZoom)) * 100)),
\* in halves, of a zoom given as 1000 * log10
scaledIterations(newZoom) ==
  2 * Min2(ScaledIterationsCap, BaseIterations + (Max2(0, newZoom) \div 10))

\* (targetIndex + 1) % ZOOM_TARGETS.length that stays where it is
nextTargetStays(targetIndex) == targetIndex

\* (targetIndex + 1) % ZOOM_TARGETS.length
nextTarget(targetIndex) == (targetIndex + 1) % NumTargets

\* the update that begins the approach of target i
targetChanges(i) ==
  [centerX |-> ZOOM_TARGETS_x[i + 1], centerY |-> ZOOM_TARGETS_y[i + 1],
   zoom |-> ZoomStartLog, maxIterations |-> 2 * StartIterations]

ZoomInit ==
  /\ speed = SpeedDefault
  /\ zoomAnim = [intervalId |-> 0, targetIndex |-> -1, direction |-> 1]
  /\ zoomCall = "none"

ZoomFrame ==
  UNCHANGED <<arithVars, renderVars, shaderVars, iterVars, colorVars, animVars,
              loopVars, uiVars>>

\* this._state.update(changes) made by the controller
ZoomUpdate(changes) ==
  /\ lastOp' = [op |-> "update", arg |-> changes]
  /\ DoUpdate(changes, FALSE, FALSE)
  /\ ret' = "state"
  /\ UNCHANGED nOps

\* setSpeed(speed), before the animation is started
SetSpeed ==
  \E s \in SpeedArgs :
    /\ zoomAnim.intervalId = 0
    /\ speed' = Max2(SpeedMin, Min2(SpeedMax, s))
    /\ zoomCall' = "setSpeed"
    /\ UNCHANGED <<zoomAnim, stateVars>>
    /\ ZoomFrame

\* start('zoom'): _createZoomAnimation picks a target at random, moves the
\* view to it and sets the interval timer; false when it is running already
ZoomStart ==
  /\ IF zoomAnim.intervalId # 0
     THEN UNCHANGED <<zoomAnim, zoomCall, stateVars>>
     ELSE \E i \in 0..(NumTargets - 1) :
            /\ zoomAnim' = [intervalId |-> 1, targetIndex |-> i, direction |-> 1]
            /\ zoomCall' = "start"
            /\ ZoomUpdate(targetChanges(i))
  /\ UNCHANGED speed
  /\ ZoomFrame

\* the interval callback of the zoom animation runs
ZoomInterval ==
  /\ zoomAnim.intervalId # 0
  /\ \E newZoom \in {state.zoom + zoomAnim.direction * zoomFactorLog[speed]} :
       IF newZoom > ZOOM_TARGETS_maxZoom[zoomAnim.targetIndex + 1]
       THEN /\ zoomAnim' = [zoomAnim EXCEPT !.targetIndex = nextTarget(@)]
            /\ ZoomUpdate(targetChanges(nextTarget(zoomAnim.targetIndex)))
       ELSE /\ zoomAnim' = [zoomAnim EXCEPT !.direction = IF newZoom < 0 THEN 1 ELSE @]
            /\ ZoomUpdate([zoom |-> newZoom,
                           maxIterations |-> scaledIterations(newZoom)])
  /\ UNCHANGED speed
  /\ zoomCall' = "tick"
  /\ ZoomFrame

ZoomNext ==
  \/ SetSpeed
  \/ ZoomStart
  \/ ZoomInterval

\* ------------------------------------------------------------------------
\* Specifications
\* ------------------------------------------------------------------------
ArithIdle ==
  /\ opA = <<0, 0>>
  /\ opB = <<0, 0>>
  /\ opName = "none"
  /\ opRes = <<<<0, 0>>, <<0, 0>>>>

\* the renderer driven by state updates
Init == ArithIdle /\ StateInit /\ RenderInit /\ ShaderInit /\ IterIdle /\ ColorIdle
  /\ AnimInit /\ LoopInit /\ UiInit /\ ZoomInit

Next == RenderNext

Spec == Init /\ [][Next]_vars

\* the FractalState store alone
InitState == ArithIdle /\ StateInit /\ RenderInit /\ ShaderInit /\ IterIdle /\ ColorIdle
  /\ AnimInit /\ LoopInit /\ UiInit /\ ZoomInit

NextState == StateNext

SpecState == InitState /\ [][NextState]_vars

\* the arithmetic kernel alone
InitArith == ArithInit /\ StateInit /\ RenderInit /\ ShaderInit /\ IterIdle /\ ColorIdle
  /\ AnimInit /\ LoopInit /\ UiInit /\ ZoomInit

NextArith == ArithNext

SpecArith == InitArith /\ [][NextArith]_vars

\* one FractalState store under long runs of recorded updates and undos
InitHistory ==
  ArithIdle /\ StateInit /\ RenderInit /\ ShaderInit /\ IterIdle /\ ColorIdle
  /\ AnimInit /\ LoopInit /\ UiInit /\ ZoomInit

NextHistory == HistoryNext

SpecHistory == InitHistory /\ [][NextHistory]_vars

\* one FractalState store and its listeners
InitListen ==
  ArithIdle /\ StateInit /\ RenderInit /\ ShaderInit /\ IterIdle /\ ColorIdle
  /\ AnimInit /\ LoopInit /\ UiInit /\ ZoomInit

NextListen == ListenNext

SpecListen == InitListen /\ [][NextListen]_vars

\* the ShaderManager alone
InitShader == ArithIdle /\ StateInit /\ RenderInit /\ ShaderInit /\ IterIdle /\ ColorIdle
  /\ AnimInit /\ LoopInit /\ UiInit /\ ZoomInit

NextShader == ShaderNext

SpecShader == InitShader /\ [][NextShader]_vars

\* the escape-time functions alone
InitIter == ArithIdle /\ StateInit /\ RenderInit /\ ShaderInit /\ IterInit /\ ColorIdle
  /\ AnimInit /\ LoopInit /\ UiInit /\ ZoomInit

NextIter == IterNext

SpecIter == InitIter /\ [][NextIter]_vars

\* getColor alone
InitColor ==
  ArithIdle /\ StateInit /\ RenderInit /\ ShaderInit /\ IterIdle /\ ColorInit
  /\ AnimInit /\ LoopInit /\ UiInit /\ ZoomInit

NextColor == ColorNext

SpecColor == InitColor /\ [][NextColor]_vars

\* the AnimationController and the store it animates
InitAnim ==
  ArithIdle /\ StateInit /\ RenderInit /\ ShaderInit /\ IterIdle /\ ColorIdle
  /\ AnimInit /\ LoopInit /\ UiInit /\ ZoomInit

NextAnim == AnimNext

SpecAnim == InitAnim /\ [][NextAnim]_vars

\* the render loop alone
InitLoop ==
  ArithIdle /\ StateInit /\ RenderInit /\ ShaderInit /\ IterIdle /\ ColorIdle
  /\ AnimInit /\ LoopInit /\ UiInit /\ ZoomInit

NextLoop == LoopNext

SpecLoop == InitLoop /\ [][NextLoop]_vars

\* the InteractionManager on its canvas and the store it acts on
InitUi ==
  ArithIdle /\ StateInit /\ RenderInit /\ ShaderInit /\ IterIdle /\ ColorIdle
  /\ AnimInit /\ LoopInit /\ UiInit /\ ZoomInit

NextUi == UiNext

SpecUi == InitUi /\ [][NextUi]_vars

\* the power morph of the AnimationController alone
InitMorph ==
  ArithIdle /\ StateInit /\ RenderInit /\ ShaderInit /\ IterIdle /\ ColorIdle
  /\ AnimInit /\ LoopInit /\ UiInit /\ ZoomInit

NextMorph == MorphNext

SpecMorph == InitMorph /\ [][NextMorph]_vars

\* the zoom animation of the double-double version alone
InitZoom ==
  ArithIdle /\ StateInit /\ RenderInit /\ ShaderInit /\ IterIdle /\ ColorIdle
  /\ AnimInit /\ LoopInit /\ UiInit /\ ZoomInit

NextZoom == ZoomNext

SpecZoom == InitZoom /\ [][NextZoom]_vars

\* the same with an interval timer that keeps firing while it is set
SpecZoomLive == SpecZoom /\ WF_vars(ZoomInterval)

BoundedIsInterior ==
  (pc = "done" /\ ~px.escaped) =>
    /\ px.iterations = uniforms.u_maxIter
    /\ frag.interior

\* C3: for maxIter in [10, 10000] the loop of a non-escaping pixel ends
\* through the maxIter check after exactly maxIter passes, never through the
\* structural bound of the loop.
BoundedExitsAtMaxIter ==
  (pc \in {"post", "done"} /\ ~px.escaped
     /\ snap.maxIter >= 2 * MaxIterMin /\ snap.maxIter <= 2 * MaxIterMax) =>
    /\ px.exit = "maxIter"
    /\ 2 * px.steps = snap.maxIter

\* C4: the low part uploaded for a centre coordinate is the coordinate minus
\* its truncation to GPU precision, and is non-zero whenever the coordinate
\* is not a GPU float.
LowPartIsResidual ==
  pc # "idle" =>
    /\ uniforms.u_centerLow[1] =
         Float32(HSub(snap.centerX, Float32(snap.centerX)))
    /\ uniforms.u_centerLow[2] =
         Float32(HSub(snap.centerY, Float32(snap.centerY)))
    /\ ~IsFloat(snap.centerX) => uniforms.u_centerLow[1] # 0
    /\ ~IsFloat(snap.centerY) => uniforms.u_centerLow[2] # 0

\* C5: the splitter returns (hi, lo) with hi + lo equal to the coordinate at
\* host precision, hi the leading part in first position and lo in second;
\* u_center receives the hi parts and u_centerLow the lo parts.
SplitSumsToValue ==
  pc # "idle" =>
    /\ HAdd(split.x[1], split.x[2]) = snap.centerX
    /\ HAdd(split.y[1], split.y[2]) = snap.centerY
    /\ Abs(split.x[2]) <= Abs(split.x[1])
    /\ Abs(split.y[2]) <= Abs(split.y[1])
    /\ uniforms.u_center = <<Float32(split.x[1]), Float32(split.y[1])>>
    /\ uniforms.u_centerLow = <<Float32(split.x[2]), Float32(split.y[2])>>

\* a frame drawn with a centre coordinate that is not a GPU float
SplitWitness ==
  /\ pc = "done"
  /\ ~IsFloat(snap.centerX)
  /\ split.x[1] = snap.centerX

\* exact value of a double-double pair
DDValue(d) == d[1] + d[2]

\* C6: twoSum(a, b) returns (hi, lo) with hi the rounded sum of a and b and
\* hi + lo the exact sum a + b.
TwoSumExact ==
  opName = "twoSum" =>
    /\ opRes[1][1] = Float32(opA[1] + opB[1])
    /\ opRes[1][1] + opRes[1][2] = opA[1] + opB[1]

\* a twoSum whose rounded sum is inexact and whose smaller operand comes first
TwoSumWitness ==
  /\ opName = "twoSum"
  /\ opRes[1][2] # 0
  /\ Abs(opA[1]) < Abs(opB[1])

\* C7 as stated: ddAdd and ddMul return the exact sum, respectively the
\* exact product, of the values of their operands.
DdArithExact ==
  /\ opName = "ddAdd" => DDValue(opRes[1]) = DDValue(opA) + DDValue(opB)
  /\ opName = "ddMul" => DDValue(opRes[1]) * Unit = DDValue(opA) * DDValue(opB)

DdAddError == Abs(DDValue(opRes[1]) - (DDValue(opA) + DDValue(opB)))

DdMulError == Abs(DDValue(opRes[1]) * Unit - DDValue(opA) * DDValue(opB))

\* C7 amended: for normalized operands ddAdd and ddMul are exact when both
\* low parts are zero, and otherwise within a relative error of
\* 2^-(2*Prec - 3) of the exact sum, respectively product.
DdArithAccurate ==
  /\ opName = "ddAdd" =>
       /\ (opA[2] = 0 /\ opB[2] = 0) => DdAddError = 0
       /\ DdAddError * Pow2(2 * Prec - 3) <= Abs(DDValue(opA) + DDValue(opB))
  /\ opName = "ddMul" =>
       /\ (opA[2] = 0 /\ opB[2] = 0) => DdMulError = 0
       /\ DdMulError * Pow2(2 * Prec - 3) <= Abs(DDValue(opA) * DDValue(opB))

\* a ddMul of operands with non-zero low parts whose result is inexact
DdArithWitness ==
  /\ opName = "ddMul"
  /\ opA[2] # 0 /\ opB[2] # 0
  /\ DdMulError # 0

\* C8: every double-double value produced on the extended path (c, and each
\* result of ddAdd, ddSub, ddMul and ddComplexSquare in the loop) is
\* normalized: |lo| <= ulp(hi)/2.
DdNormalized ==
  px.path = "dd" => \A d \in px.produced : Normalized(d)

\* the second or a later pass of the double-double loop has produced a value
\* with a non-zero low part
DdNormalizedWitness ==
  /\ pc = "dd"
  /\ px.steps >= 2
  /\ \E d \in px.produced : d[2] # 0

\* C9: in every state reachable through the FractalState operations zoom is
\* in [0.1, 1e15], power in [1, 12], maxIter an integer in [10, 10000],
\* numberBase an integer in [2, 60] and colorOffset in [0, 100).
StateInRange ==
  /\ state.zoom >= ZoomLogMin /\ state.zoom <= ZoomLogMax
  /\ state.power >= PowerMin /\ state.power <= PowerMax
  /\ state.maxIter % 2 = 0
  /\ state.maxIter >= 2 * MaxIterMin /\ state.maxIter <= 2 * MaxIterMax
  /\ state.numberBase % 2 = 0
  /\ state.numberBase >= 2 * NumberBaseMin /\ state.numberBase <= 2 * NumberBaseMax
  /\ state.colorOffset >= 0 /\ state.colorOffset < ColorOffsetWrap

\* C10: after update({colorScheme: k}) with k in 0..19 the colorScheme of the
\* state is k, and the next frame is coloured by the branch of scheme k.
SchemeSelectable ==
  (/\ lastOp.op = "update"
   /\ "colorScheme" \in DOMAIN lastOp.arg
   /\ lastOp.arg.colorScheme \in {2 * k : k \in 0..19}) =>
    /\ state.colorScheme = lastOp.arg.colorScheme
    /\ (pc = "done" /\ ~frag.interior) => 2 * frag.scheme = lastOp.arg.colorScheme

\* C11: in every reachable state with juliaMode true, juliaC is a pair of
\* two numbers, so the Julia constant uploaded for a frame is defined.
JuliaCDefined ==
  state.juliaMode =>
    /\ Len(state.juliaC) = 2
    /\ state.juliaC[1] # Undefined
    /\ state.juliaC[2] # Undefined

CompileFailed ==
  /\ call.op = "createProgram"
  /\ ~call.hit
  /\ call.args.env.vertexShader
  /\ \/ call.args.vertexSource = "invalid"
     \/ call.args.env.fragmentShader /\ call.args.fragmentSource = "invalid"

\* the call was a createProgram in which both shaders compiled and the
\* program failed to link
LinkFailed ==
  /\ call.op = "createProgram"
  /\ ~call.hit
  /\ call.args.env.vertexShader /\ call.args.vertexSource = "valid"
  /\ call.args.env.fragmentShader /\ call.args.fragmentSource = "valid"
  /\ call.args.env.program
  /\ ~call.args.env.link

\* C13: when shader compilation or linking fails, createProgram throws to its
\* caller, stores no program in the cache under the name, and makes no second
\* attempt: each shader is compiled at most once and the program is linked at
\* most once during the call.
FailedCreateThrows ==
  (CompileFailed \/ LinkFailed) =>
    /\ call.threw \in {"Shader compilation error", "Program link error"}
    /\ call.ret = 0
    /\ call.name # "" => call.name \notin DOMAIN programs
    /\ \A i, j \in DOMAIN call.compiles :
         call.compiles[i] = call.compiles[j] => i = j
    /\ call.links <= 1
    /\ CompileFailed => call.links = 0

\* a named program whose link fails while another program is cached
LinkFailureSeen ==
  /\ LinkFailed
  /\ call.name = "test"
  /\ "mandelbrot" \in DOMAIN programs

\* the call was made with power 2 and the default options
PlainQuadratic ==
  /\ iterIn.power = 2000
  /\ ~iterIn.options.burningShip
  /\ ~iterIn.options.juliaMode

\* C14: for c = (0, 0) and c = (-2, 0) at power 2 the escape-time iteration
\* never escapes: for every maxIter >= 1 it runs to the cap and the returned
\* count equals maxIter.
InSetRunsToCap ==
  (/\ iterOut.fn # "none"
   /\ iterIn.c \in {<<0, 0>>, <<-(2 * Unit), 0>>}
   /\ iterIn.power = 2000
   /\ iterOut.fn = "mandelbrotIteration" => PlainQuadratic) =>
    /\ iterOut.i <= iterIn.maxIter
    /\ iterOut.done =>
         /\ iterOut.i = iterIn.maxIter
         /\ iterOut.ret = iterIn.maxIter
         /\ iterOut.magSq = 0

\* mandelbrotIteration([-2, 0], maxIter, 2) has returned for a cap above 1
CapReachedAtMinusTwo ==
  /\ iterOut.fn = "mandelbrotIteration"
  /\ PlainQuadratic
  /\ iterIn.c = <<-(2 * Unit), 0>>
  /\ iterIn.maxIter = MaxIterations
  /\ iterOut.done
  /\ iterOut.ret = MaxIterations

\* the count mandelbrotIteration returns when its loop is at pass i with z
RECURSIVE escapeCount(_, _, _, _, _, _)
escapeCount(z, i, constant, maxIter, power, burningShip) ==
  IF i >= maxIter THEN maxIter
  ELSE The({ IF exceeds(z1, EscapeRadiusSq) THEN i
             ELSE escapeCount(z1, i + 1, constant, maxIter, power, burningShip) :
             z1 \in {mandelbrotPass(z, constant, power, burningShip)} })

\* C15: at c = (0.5, 0.5), power 2, maxIter 100 the escape count with the
\* Burning Ship absolute-value step differs from the count without it.
BurningShipDiffers ==
  (/\ iterOut.fn = "mandelbrotIteration"
   /\ iterOut.done
   /\ iterIn.c = <<Unit \div 2, Unit \div 2>>
   /\ iterIn.power = 2000
   /\ iterIn.maxIter = TestMaxIter
   /\ ~iterIn.options.juliaMode) =>
    iterOut.ret # escapeCount(<<0, 0>>, 0, iterIn.c, iterIn.maxIter, iterIn.power,
                              ~iterIn.options.burningShip)

\* the Burning Ship call of the test has returned, with an escape
BurningShipEscaped ==
  /\ iterOut.fn = "mandelbrotIteration"
  /\ iterOut.done
  /\ iterIn.c = <<Unit \div 2, Unit \div 2>>
  /\ iterIn.power = 2000
  /\ iterIn.maxIter = TestMaxIter
  /\ ~iterIn.options.juliaMode
  /\ iterIn.options.burningShip
  /\ iterOut.ret < TestMaxIter

\* the colour getColor returns for the arguments of the call whatever the
\* value of u_zoom is
SameColourAtEveryZoom ==
  \A zoom \in ZoomValues : colourOf(colorIn, zoom) = colorOut.colour

\* the call took the Distance Glow branch with a distance above zero
GlowBranch ==
  /\ colorIn.iterations < colorIn.maxIterations - 1
  /\ IntOf(colorIn.scheme) = 18
  /\ colorIn.distance > 0

NextDerivative ==
  LET z0 == IF uniforms.u_burningShip = 1
            THEN <<Abs(px.z[1]), Abs(px.z[2])>> ELSE px.z
      zdz == IF NearTwo(uniforms.u_power)
             THEN complexMul(z0, px.dz)
             ELSE complexMul(complexPower(z0, uniforms.u_power - 1000), px.dz)
      k == IF NearTwo(uniforms.u_power)
           THEN 2 * Unit ELSE PowerFloat(uniforms.u_power)
  IN  <<FAdd(FMul(k, zdz[1]), Unit), FMul(k, zdz[2])>>

\* C17: on both precision paths every pass of the iteration loop updates the
\* derivative accumulator from the z it starts with (dz' = 2 z dz + 1 at
\* power 2), so that the distance estimate of an escaped pixel is computed
\* from the accumulated derivative.
DerivativeUpdatedEachPass ==
  [][(pc \in {"dd", "std"} /\ px'.steps = px.steps + 1) =>
       px'.dz = NextDerivative]_vars

\* what the claim requires of a step that is an undo(): the state before the
\* most recent update still pending is restored and true returned; with none
\* pending the state stays and false is returned
UndoRestoresPending ==
  IF pending # <<>>
  THEN state' = pending[Len(pending)] /\ ret' = "true"
  ELSE state' = state /\ ret' = "false"

\* C18 as stated: after any sequence of updates, undo() restores exactly the
\* state that held before the most recent not-yet-undone update made with
\* addToHistory and returns true; when there is none it returns false and
\* leaves the state unchanged.
UndoRestoresAlways == [][lastOp'.op = "undo" => UndoRestoresPending]_vars

\* C18, amended: the same, for a store whose history has never dropped a
\* snapshot, that is, on which at most MaxHistorySize (50) recorded updates
\* were ever pending at once; an update counts when it changed the state.
UndoRestoresWithinLimit ==
  [][(lastOp'.op = "undo" /\ dropped = 0) => UndoRestoresPending]_vars

\* an undo() has restored a state while an older update is still pending
UndoRestored ==
  /\ lastOp.op = "undo"
  /\ ret = "true"
  /\ dropped = 0
  /\ pending # <<>>
  /\ historyIndex >= 0

\* every validated value of changes equals the value the state st holds
AllEqual(st, changes) ==
  \A k \in DOMAIN validateChanges(changes) :
    k \in DOMAIN st /\ st[k] = validateChanges(changes)[k]

\* C19: update(changes) whose validated values all equal the current values
\* leaves the state and the undo history unchanged and notifies no listener,
\* even when addToHistory is true.
EqualUpdateChangesNothing ==
  [][(lastOp'.op = "update" /\ nOps' = nOps + 1 /\ AllEqual(state, lastOp'.arg)) =>
       /\ state' = state
       /\ history' = history
       /\ historyIndex' = historyIndex
       /\ ~notified']_vars

\* an update with addToHistory, not silent, that changed nothing, on a store
\* that holds history
EqualUpdateSeen ==
  /\ lastOp.op = "update"
  /\ opts.addToHistory
  /\ ~opts.silent
  /\ ~notified
  /\ AllEqual(state, lastOp.arg)
  /\ historyIndex >= 0

\* what the claim requires of a step that is an applyPreset: afterwards
\* canUndo() is true and the snapshot undo() would restore is the state that
\* held before the call
PresetRecorded ==
  /\ historyIndex' >= 0
  /\ history'[historyIndex' + 1] = state

\* C20 as stated: every applyPreset(preset) call records the pre-preset state
\* in the undo history: immediately afterwards canUndo() is true and one
\* undo() restores the state that held before the preset was applied.
EveryPresetRecorded ==
  [][(lastOp'.op = "applyPreset" /\ nOps' = nOps + 1) => PresetRecorded]_vars

\* C20, amended: every applyPreset(preset) call that changes at least one
\* value of the state records the pre-preset state; a preset whose validated
\* values all equal the current ones leaves the history as it was.
ChangingPresetRecorded ==
  [][(lastOp'.op = "applyPreset" /\ nOps' = nOps + 1) =>
       IF AllEqual(state, lastOp'.arg)
       THEN history' = history /\ historyIndex' = historyIndex
       ELSE PresetRecorded]_vars

\* a preset was applied over an earlier recorded change and is undoable
PresetUndoable ==
  /\ lastOp.op = "applyPreset"
  /\ notified
  /\ historyIndex >= 1
  /\ history[historyIndex + 1] # state

\* ------------------------------------------------------------------------
\* C21: after reset(), getState() equals the state of a freshly constructed
\* default FractalState (DEFAULT_STATE, key for key), whatever operations
\* preceded the reset.
\* ------------------------------------------------------------------------
ResetGivesDefault ==
  lastOp.op = "reset" => state = DEFAULT_STATE

\* the number of times the last operation invoked listener l
TimesInvoked(seq, l) == Cardinality({i \in 1..Len(seq) : seq[i] = l})

\* ------------------------------------------------------------------------
\* C22: a subscribed listener is invoked once for every non-silent update
\* that changes the state and never after its unsubscribe function has been
\* called; a listener that throws prevents neither the notification of the
\* other listeners nor the state change.
\* ------------------------------------------------------------------------
ListenersInvokedOnce ==
  [][lastOp'.op = "update" =>
       IF ~opts'.silent /\ ~AllEqual(state, lastOp'.arg)
       THEN /\ \A l \in subs.active : TimesInvoked(invoked', l) = 1
            /\ \A l \in ListenerFns \ subs.active : TimesInvoked(invoked', l) = 0
            /\ state' = Spread(state, validateChanges(lastOp'.arg))
       ELSE invoked' = <<>>]_vars

\* an update has notified a listener that throws and then another one, on a
\* store one listener has unsubscribed from
ThrowingListenerPassed ==
  /\ lastOp.op = "update"
  /\ Len(invoked) = 2
  /\ invoked[1] \in Throwing
  /\ invoked[2] \notin Throwing
  /\ subs.issued \ subs.active # {}
  /\ state.zoom # DEFAULT_STATE.zoom

\* a state every value of which _validateChanges leaves as it is
ValidState(st) == validateChanges(st) = st

\* the keys of the view that fromURLParams always restores
ViewKeys ==
  {"centerX", "centerY", "zoom", "power", "maxIter", "numberBase",
   "colorScheme", "burningShip", "juliaMode"}

\* ------------------------------------------------------------------------
\* C23: for every valid state s, fromURLParams(s.toURLParams()) applied to
\* any FractalState returns true and makes centerX, centerY, zoom, power,
\* maxIter, numberBase, colorScheme, burningShip and juliaMode equal to those
\* of s, and juliaC equal to that of s when s.juliaMode is true; input that
\* cannot be decoded returns false and leaves the state unchanged.
\* ------------------------------------------------------------------------
UrlRoundTrip ==
  [][(lastOp'.op = "fromURLParams" /\ nOps' = nOps + 1) =>
       /\ \A s \in SharedStates :
            (ValidState(s) /\ lastOp'.arg = toURLParams(s)) =>
              /\ ret' = "true"
              /\ \A k \in ViewKeys : state'[k] = s[k]
              /\ s.juliaMode => state'.juliaC = s.juliaC
       /\ ~lastOp'.arg.ok => (ret' = "false" /\ state' = state)]_vars

\* the shared view of a valid state whose centerX is 0 has been restored,
\* changing a store that an earlier operation had changed
UrlRestored ==
  /\ lastOp.op = "fromURLParams"
  /\ ret = "true"
  /\ notified
  /\ nOps = 2
  /\ \E s \in SharedStates :
       /\ ValidState(s)
       /\ lastOp.arg = toURLParams(s)
       /\ s.centerX = 0
       /\ state.centerX = 0
       /\ state.power = s.power

\* the live interval timers that run the callback of animation type t
TimersOf(ts, t) == {h \in DOMAIN ts : ts[h].type = t}

\* ------------------------------------------------------------------------
\* C24: at most one timer exists per animation type at any time: start(type)
\* on a type that is already running returns false, creates no timer and
\* sends no notification, and start of an unknown type returns false and
\* leaves the running set unchanged.
\* ------------------------------------------------------------------------
OneTimerPerType ==
  [][/\ \A t \in AnimationTypes : Cardinality(TimersOf(timers', t)) <= 1
     /\ animCall'.op = "start" =>
          /\ animCall'.type \in DOMAIN animations =>
               /\ animCall'.ret = "false"
               /\ timers' = timers
               /\ timerNext' = timerNext
               /\ animCall'.sent = 0
          /\ animCall'.type \notin AnimationTypes =>
               /\ animCall'.ret = "false"
               /\ animations' = animations]_vars

\* start was refused for a type that is running, with a listener subscribed
\* and a second animation running
StartRefused ==
  /\ animCall.op = "start"
  /\ animCall.ret = "false"
  /\ animCall.type \in DOMAIN animations
  /\ animListeners # {}
  /\ Cardinality(DOMAIN timers) = 2

\* ------------------------------------------------------------------------
\* C25: at every moment the set of live interval timers created by the
\* AnimationController equals the set of animation types it reports as
\* running, so once stop(type), stopAll() or dispose() has returned, no
\* animation it stopped updates the fractal state again until it is
\* restarted.
\* ------------------------------------------------------------------------
LiveTimersAreRunning ==
  [][/\ DOMAIN timers' = {animations'[t] : t \in DOMAIN animations'}
     /\ \A t \in DOMAIN animations' : TimersOf(timers', t) = {animations'[t]}
     /\ animCall'.op = "tick" => animCall'.type \in DOMAIN animations]_vars

\* stopAll() has stopped two animations, one of which had updated the store
StoppedAll ==
  /\ animCall.op = "stopAll"
  /\ animCall.sent = 2
  /\ DOMAIN timers = {}
  /\ DOMAIN animations = {}
  /\ nTicks = 1
  /\ notified

\* ------------------------------------------------------------------------
\* C26: for every argument, toggle(type) returns true exactly when the
\* animation of that type is running after the call and false exactly when
\* it is not.
\* ------------------------------------------------------------------------
ToggleReportsRunning ==
  animCall.op = "toggle" =>
    (animCall.ret = "true" <=> animCall.type \in DOMAIN animations)

\* ------------------------------------------------------------------------
\* C27: createProgram with a name that is already cached returns the cached
\* program and creates, compiles and links nothing; over any sequence of
\* createProgram, deleteProgram and dispose calls each name maps to at most
\* one live program and never to a deleted one.
\* ------------------------------------------------------------------------
CachedProgramReused ==
  [][/\ \A n \in DOMAIN programs' : programs'[n] \in glLive'
     /\ (call'.op = "createProgram" /\ call'.name # ""
           /\ call'.name \in DOMAIN programs) =>
          /\ call'.ret = programs[call'.name]
          /\ call'.threw = ""
          /\ call'.compiles = <<>>
          /\ call'.links = 0
          /\ glLive' = glLive
          /\ glNext' = glNext
          /\ programs' = programs
          /\ shaders' = shaders]_vars

\* a cached program was returned on a manager that had deleted a program
\* before and holds a second program
CacheHitSeen ==
  /\ call.op = "createProgram"
  /\ call.hit
  /\ call.ret = programs[call.name]
  /\ call.ret \in glLive
  /\ Cardinality(shaders) = 1
  /\ glNext = 7

\* ------------------------------------------------------------------------
\* C28: whenever compileShader or createProgram fails, every shader and
\* program object created during that call has been deleted by the time the
\* error is thrown.
\* ------------------------------------------------------------------------
FailedCallLeavesNothing ==
  [][(call'.op = "createProgram" /\ call'.threw # "") => glLive' = glLive]_vars

\* ------------------------------------------------------------------------
\* C29: after ShaderManager.dispose(), every program and shader that was
\* created through the manager (named or unnamed) and not yet deleted has
\* been deleted, and the program cache is empty.
\* ------------------------------------------------------------------------
DisposeDeletesEverything ==
  call.op = "dispose" => (glLive = {} /\ DOMAIN programs = {})

\* ------------------------------------------------------------------------
\* C30: at most one render-loop frame callback is pending at any time and
\* none is pending while isRunning() is false: a second startRenderLoop while
\* running schedules nothing, and after stopRenderLoop() or dispose() returns
\* no further frame is rendered until startRenderLoop is called again, also
\* when they are called from the onFrame callback.
\* ------------------------------------------------------------------------
RenderLoopSingle ==
  [][/\ Cardinality(rafPending') <= 1
     /\ animationFrameId' = 0 => rafPending' = {}
     /\ (loopCall'.n = loopCall.n + 1 /\ loopCall'.op = "start"
           /\ animationFrameId # 0) => rafPending' = rafPending
     /\ nFrames' = nFrames + 1 => loopCall.op \notin {"stop", "dispose"}]_vars

\* ------------------------------------------------------------------------
\* C31: while enablePan is false, no mouse or touch event starts a drag or
\* pans: from a state in which panning is disabled and no drag is under way,
\* no step leaves isDragging() true or calls pan on the store.
\* ------------------------------------------------------------------------
PanDisabledNoDrag ==
  [][~imOptions.enablePan /\ ~imOptions'.enablePan /\ ~im.isDragging
       => ~im'.isDragging /\ uiCall'.method # "pan"]_vars

\* ------------------------------------------------------------------------
\* C32: while enableClick is true, a click at most 5 pixels from where the
\* button was pressed calls zoomAt at the click point with zoomFactor (with
\* 1 / zoomFactor when Shift is held), and a click further than 5 pixels from
\* the press makes no call.
\* ------------------------------------------------------------------------
ClickZoomsUnlessDragged ==
  uiCall.event = "click" /\ imOptions.enableClick /\ press # <<>>
    => IF distSq(uiCall.at[1], uiCall.at[2], press[1], press[2])
            <= ClickSlop * ClickSlop
       THEN /\ uiCall.method = "zoomAt"
            /\ uiCall.x = uiCall.at[1]
            /\ uiCall.y = uiCall.at[2]
            /\ uiCall.factor = IF uiCall.shiftKey THEN inverse(imOptions.zoomFactor)
                               ELSE imOptions.zoomFactor
       ELSE uiCall.method = "none"

\* ------------------------------------------------------------------------
\* C33: after dispose() no listener of the manager is left on the canvas,
\* whatever setOptions calls were made before, and no event changes the
\* state of the store any more.
\* ------------------------------------------------------------------------
DisposeDetachesAll ==
  [][disposed' => canvasListeners' = {} /\ (disposed => state' = state)]_vars

\* ------------------------------------------------------------------------
\* C34: while the power morph runs from a power within [2, 8], the power is
\* within [2, 8] after every tick.
\* ------------------------------------------------------------------------
MorphPowerInRange ==
  has(animations, "morph") /\ nTicks > 0
    => PowerTurnUp <= state.power /\ state.power <= PowerTurnDown

\* ------------------------------------------------------------------------
\* C35: after a tick of the zoom animation that set the zoom to Z, the
\* state's maxIter is min(2000, floor(256 + 100 * log10(max(1, Z)))).
\* ------------------------------------------------------------------------
MaxIterFollowsZoom ==
  zoomCall = "tick" /\ state.zoom # ZoomStartLog
    => state.maxIter = scaledIterations(state.zoom)

Differing(a, b) ==
  {k \in (DOMAIN a) \cup (DOMAIN b) :
     k \notin DOMAIN a \/ k \notin DOMAIN b \/ a[k] # b[k]}

\* ------------------------------------------------------------------------
\* C37: the key list an operation hands to the listeners names exactly the
\* properties whose value differs between the state before and the state
\* after the operation.
\* ------------------------------------------------------------------------
ChangedKeysExact ==
  [][notified' => changedKeys' = Differing(state, state')]_vars

\* ------------------------------------------------------------------------
\* C38: the history never holds more than 50 entries and the index stays
\* between -1 and the last entry; once more than 50 recorded updates have
\* been made and the oldest snapshot has been shifted out, undo() restores
\* the states before the 50 most recent updates, the latest first, and
\* refuses to go back further.
\* ------------------------------------------------------------------------
HistoryBoundedKeepsRecent ==
  /\ [](/\ Len(history) <= MaxHistorySize
        /\ -1 <= historyIndex
        /\ historyIndex < Len(history))
  /\ [][lastOp'.op = "undo" /\ dropped > 0
          => IF Len(pending) > dropped
             THEN state' = pending[Len(pending)] /\ ret' = "true"
             ELSE state' = state /\ ret' = "false"]_vars

\* after 51 recorded updates the 50 most recent have been undone and the
\* next undo() has been refused
OldestNotUndone ==
  /\ lastOp.op = "undo"
  /\ ret = "false"
  /\ dropped = 1
  /\ historyIndex = -1
  /\ Len(history) = MaxHistorySize
  /\ state = history[1]

\* ESCAPE_TIME, DISTANCE_ESTIMATION, ORBIT_TRAP
COLORING_MODES == {0, 1, 2}

\* the uniforms u with u_coloringMode holding m
withColoringMode(u, m) == [u EXCEPT !.u_coloringMode = m]

\* the state st with coloringMode holding m
withStateMode(st, m) ==
  [k \in DOMAIN st \cup {"coloringMode"} |->
     IF k = "coloringMode" THEN m ELSE st[k]]

\* the two modes other than the orbit trap
UntrappedModes == {0, 1}

\* the modes the frame is not rendered in
OtherModes == COLORING_MODES \ {uniforms.u_coloringMode}

====
